---- MODULE Spec2Model ----
(***************************************************************************)
(* Dual-venue arbitrage detector: per-venue price caches, the opportunity  *)
(* detector (onPriceUpdate / checkArbitrage) and the slot decision engine  *)
(* (handleNewOpportunity) of src/src/arbitrage-detector.ts.                *)
(*                                                                         *)
(* Numbers.  The program computes in floating point; the model computes    *)
(* the same expressions exactly, as rationals [n, d] with d > 0.  A        *)
(* quantity the code calls "...Percent" is stored as the fraction it is    *)
(* 100 times (value in percent = 100 * n / d), which keeps every product   *)
(* inside TLC's integers.  A configured percentage is the integer k        *)
(* meaning k / pctDen percent.                                             *)
(***************************************************************************)
EXTENDS Integers, Sequences, FiniteSets, TLC

VARIABLES config, binanceCache, mexcCache, openPositions,
          skippedOpportunities, stats, ev, cost,
          ws, sockets, pingInterval, intervals, timers,
          currentDowntime, downtimes, boot, hist, lastCall, fn,
          scriptState, clock, audit

\* the venue clients' connection state, the connection monitor, the
\* position of start() / stop(), and the records of the last steps
connVars == <<ws, sockets, pingInterval, intervals, timers,
              currentDowntime, downtimes, boot, hist, lastCall>>

\* the auxiliary script: its state object, Date.now() and the record of
\* its entries and closes
scriptVars == <<scriptState, clock, audit>>

vars == <<config, binanceCache, mexcCache, openPositions,
          skippedOpportunities, stats, ev, cost, connVars, fn, scriptVars>>

None == [none |-> TRUE]

\* the auxiliary script is a program of its own and does not run
ScriptNotRun == scriptState = None /\ clock = 0 /\ audit = None

\* ------------------------------------------------------------------ bounds
MaxSkipped == 1
MaxComparisons == 5

\* ------------------------------------------------------------- rationals
Rat(n, d) == [n |-> n, d |-> d]

RatLess(a, b) == a.n * b.d < b.n * a.d

\* value-in-percent(a) < k / pctDen
PctBelow(a, k, pctDen) == a.n * 100 * pctDen < k * a.d

\* ---------------------------------------------------------------- symbols
\* A symbol is the sequence of its characters.
IndexOfFrom(s, pat, i) ==
    LET Hits == {j \in i..(Len(s) - Len(pat) + 1) :
                    SubSeq(s, j, j + Len(pat) - 1) = pat}
    IN  IF Hits = {} THEN 0 ELSE CHOOSE j \in Hits : \A k \in Hits : j <= k

\* String.prototype.replace(pattern, replacement) with a string pattern:
\* only the first occurrence is replaced.
ReplaceFirst(s, pat, rep) ==
    LET i == IndexOfFrom(s, pat, 1)
    IN  IF i = 0 THEN s
        ELSE SubSeq(s, 1, i - 1) \o rep \o SubSeq(s, i + Len(pat), Len(s))

USDT == <<"U", "S", "D", "T">>

toCommonFormat(mexcSymbol) == ReplaceFirst(mexcSymbol, <<"_">>, <<>>)

toMexcFormatFirstUsd(binanceSymbol) ==
    ReplaceFirst(binanceSymbol, <<"U", "S", "D">>, <<"_", "U", "S", "D">>)

toMexcFormat(binanceSymbol) == ReplaceFirst(binanceSymbol, USDT, <<"_">> \o USDT)

\* The tracked universe (ArbitrageDetector.commonSymbols, Binance format).
commonSymbols == {<<"A">> \o USDT, <<"B">> \o USDT, <<"C">> \o USDT}

\* startWebSocketMonitoring: the MEXC subscription set.
mexcSymbols == {toMexcFormat(s) : s \in commonSymbols}

Exchanges == {"binance", "mexc"}

\* ------------------------------------------------------------ configuration
\* Config (src/src/types/config.ts), the fields the engine reads.
\*   minSpreadPercent      arbitrage.minSpreadPercent
\*   minSpreadToNotify     notifications.minSpreadToNotify
\*   takerBinance/Mexc     fees.<exchange>.taker
\*   slippage              slippage.percent
\*   enabled               trading.enabled
\*   closeOnNewOpportunity trading.closeOnNewOpportunity
\*   maxOpenPositions      trading.maxOpenPositions
\* Percentages are k / pctDen percent.
CfgIn(pctDen, minSpread, notify, tb, tm, sl, en, con, maxOpen) ==
    [minSpreadPercent |-> minSpread, minSpreadToNotify |-> notify,
     takerBinance |-> tb, takerMexc |-> tm, slippage |-> sl,
     enabled |-> en, closeOnNewOpportunity |-> con,
     maxOpenPositions |-> maxOpen, pctDen |-> pctDen]

\* whole percents
Cfg(minSpread, notify, tb, tm, sl, en, con, maxOpen) ==
    CfgIn(1, minSpread, notify, tb, tm, sl, en, con, maxOpen)

Configs ==
    { Cfg(10, 1, 1, 0, 1, TRUE, TRUE, 2),
      Cfg(10, 1, 1, 0, 1, TRUE, FALSE, 2),
      Cfg(10, 1, 1, 0, 1, FALSE, TRUE, 2),
      Cfg(25, 1, 1, 0, 1, TRUE, TRUE, 2) }

taker(cfg, exchange) ==
    IF exchange = "binance" THEN cfg.takerBinance ELSE cfg.takerMexc

\* 1.0 expressed in the unit of "percent / 100" (fee fractions).
One(cfg) == 100 * cfg.pctDen

\* ------------------------------------------------------------ price caches
\* TickerPrice (src/src/types/exchange.ts); the timestamp is not modelled.
TickerPrice(symbol, last, bid, ask, exchange) ==
    [symbol |-> symbol, price |-> last, bid |-> bid, ask |-> ask,
     exchange |-> exchange]

\* Map.get
getPrice(cache, symbol) ==
    IF symbol \in DOMAIN cache THEN cache[symbol] ELSE None

CacheSetIfAbsent(cache, symbol, price) ==
    [s \in DOMAIN cache \cup {symbol} |->
        IF s \in DOMAIN cache THEN cache[s] ELSE price]

\* Map.set
CacheSet(cache, symbol, price) ==
    [s \in DOMAIN cache \cup {symbol} |->
        IF s = symbol THEN price ELSE cache[s]]

EmptyMap == [s \in {} |-> None]

\* Best bid / best ask pairs the venues send.  Instrument A is quoted high
\* on Binance while its MEXC book moves between low and middle; B is quoted
\* low on Binance while its MEXC book moves between low and high; C is
\* quoted a little lower on Binance than on MEXC.
Quote(bid, ask) == [bid |-> bid, ask |-> ask]

Low == Quote(9, 10)

Mid == Quote(10, 11)

High == Quote(12, 13)

Feed(exchange, symbol) ==
    LET c == toCommonFormat(symbol)
    IN  IF c = <<"A">> \o USDT
        THEN IF exchange = "binance" THEN {High} ELSE {Low, Mid}
        ELSE IF c = <<"B">> \o USDT
        THEN IF exchange = "binance" THEN {Low} ELSE {Low, High}
        ELSE IF exchange = "binance" THEN {Low} ELSE {Quote(11, 12)}

\* --------------------------------------------------------------- detection
spreadOf(buyPrice, sellPrice) == Rat(sellPrice - buyPrice, buyPrice)

\* variant: the sell price is inflated by the costs instead of deflated
profitOfSellInflated(buyPrice, sellPrice, buyFee, sellFee, slippage, one) ==
    LET buyPriceWithFeeAndSlippage == buyPrice * (one + buyFee + slippage)
        sellPriceWithFeeAndSlippage == sellPrice * (one + sellFee + slippage)
    IN  Rat(sellPriceWithFeeAndSlippage - buyPriceWithFeeAndSlippage,
            buyPriceWithFeeAndSlippage)

\* profitPercent of checkArbitrage (as a fraction).
profitOf(buyPrice, sellPrice, buyFee, sellFee, slippage, one) ==
    LET buyPriceWithFeeAndSlippage == buyPrice * (one + buyFee + slippage)
        sellPriceWithFeeAndSlippage == sellPrice * (one - sellFee - slippage)
    IN  Rat(sellPriceWithFeeAndSlippage - buyPriceWithFeeAndSlippage,
            buyPriceWithFeeAndSlippage)

\* variant: an ask equal to the other venue's bid counts as arbitrage
DirectionNotStrict(price1, price2) ==
    IF price1.ask <= price2.bid
    THEN [buyExchange |-> price1.exchange, sellExchange |-> price2.exchange,
          buyPrice |-> price1.ask, sellPrice |-> price2.bid]
    ELSE IF price2.ask <= price1.bid
    THEN [buyExchange |-> price2.exchange, sellExchange |-> price1.exchange,
          buyPrice |-> price2.ask, sellPrice |-> price1.bid]
    ELSE None

\* The direction choice of checkArbitrage: who buys, who sells, or None.
Direction(price1, price2) ==
    IF price1.ask < price2.bid
    THEN [buyExchange |-> price1.exchange, sellExchange |-> price2.exchange,
          buyPrice |-> price1.ask, sellPrice |-> price2.bid]
    ELSE IF price2.ask < price1.bid
    THEN [buyExchange |-> price2.exchange, sellExchange |-> price1.exchange,
          buyPrice |-> price2.ask, sellPrice |-> price1.bid]
    ELSE None

\* variant: no minimum-spread filter
PassesMinSpreadAlways(d, cfg) == TRUE

\* The minimum-spread filter of checkArbitrage.
PassesMinSpread(d, cfg) ==
    ~PctBelow(spreadOf(d.buyPrice, d.sellPrice), cfg.minSpreadPercent, cfg.pctDen)

\* checkArbitrage up to the construction of the opportunity: the
\* ArbitrageOpportunity, or None when the function returns early.
checkArbitrage(price1, price2, symbol, cfg) ==
    LET d == Direction(price1, price2)
    IN  IF d = None THEN None
        ELSE IF ~PassesMinSpread(d, cfg) THEN None
        ELSE [symbol |-> symbol,
              buyExchange |-> d.buyExchange, sellExchange |-> d.sellExchange,
              buyPrice |-> d.buyPrice, sellPrice |-> d.sellPrice,
              spreadPercent |-> spreadOf(d.buyPrice, d.sellPrice),
              profitPercent |-> profitOf(d.buyPrice, d.sellPrice,
                                         taker(cfg, d.buyExchange),
                                         taker(cfg, d.sellExchange),
                                         cfg.slippage, One(cfg))]

getCurrentPrices(bc, mc, symbol) ==
    LET binancePrice == getPrice(bc, symbol)
        mexcPrice == getPrice(mc, toMexcFormat(symbol))
    IN  IF binancePrice = None \/ mexcPrice = None THEN None
        ELSE IF binancePrice.ask < mexcPrice.bid
        THEN [buyPrice |-> binancePrice.ask, sellPrice |-> mexcPrice.bid]
        ELSE [buyPrice |-> mexcPrice.ask, sellPrice |-> binancePrice.bid]
\* ------------------------------------------------------------------ ledger
\* The position ledger and telemetry sink that the engine drives.  An open
\* pairing (PositionPair) keeps the opportunity's venues and entry prices;
\* openPositions is the ledger's Map in insertion order.
NewPairId(open) ==
    CHOOSE i \in 1..(Len(open) + 1) : \A k \in 1..Len(open) : open[k].id # i

PositionPair(id, opp) ==
    [id |-> id, symbol |-> opp.symbol,
     longPosition |-> [exchange |-> opp.buyExchange, entryPrice |-> opp.buyPrice],
     shortPosition |-> [exchange |-> opp.sellExchange, entryPrice |-> opp.sellPrice]]

canOpenNewPosition(open, cfg) == Len(open) < cfg.maxOpenPositions

openPositionPair(open, opp) == Append(open, PositionPair(NewPairId(open), opp))

RECURSIVE RemovePair(_, _)
RemovePair(open, pairId) ==
    IF open = <<>> THEN <<>>
    ELSE IF Head(open).id = pairId THEN RemovePair(Tail(open), pairId)
    ELSE <<Head(open)>> \o RemovePair(Tail(open), pairId)

closePositionManually(open, pairId) == RemovePair(open, pairId)

SkippedOpportunity(opp, reason, currentPositionProfit) ==
    [symbol |-> opp.symbol, reason |-> reason,
     profitPercent |-> opp.profitPercent,
     currentPositionProfit |-> currentPositionProfit]

\* The calls handleNewOpportunity makes on the ledger, in order.
OpenCall(opp) == [op |-> "open", opportunity |-> opp]

CloseCall(pair, prices) ==
    [op |-> "close", pairId |-> pair.id, symbol |-> pair.symbol,
     exitBuyPrice |-> prices.buyPrice, exitSellPrice |-> prices.sellPrice]

\* variant: the skip record carries no profit of the blocking pairing
SkipCallNoContext(opp, reason, currentPositionProfit) ==
    [op |-> "skip", opportunity |-> opp, reason |-> reason,
     currentPositionProfit |-> None]

SkipCall(opp, reason, currentPositionProfit) ==
    [op |-> "skip", opportunity |-> opp, reason |-> reason,
     currentPositionProfit |-> currentPositionProfit]

RECURSIVE ApplyToLedger(_, _)
ApplyToLedger(open, calls) ==
    IF calls = <<>> THEN open
    ELSE LET c == Head(calls)
             next == IF c.op = "open" THEN openPositionPair(open, c.opportunity)
                     ELSE IF c.op = "close" THEN closePositionManually(open, c.pairId)
                     ELSE open
         IN  ApplyToLedger(next, Tail(calls))

RECURSIVE ApplyToSkipped(_, _)
ApplyToSkipped(log, calls) ==
    IF calls = <<>> THEN log
    ELSE LET c == Head(calls)
             next == IF c.op = "skip"
                     THEN Append(log, SkippedOpportunity(c.opportunity, c.reason,
                                                        c.currentPositionProfit))
                     ELSE log
         IN  ApplyToSkipped(next, Tail(calls))

\* ------------------------------------------------------ slot decision engine
\* variant: the scan never finds the instrument
SymbolAlreadyOpenNever(open, symbol) == FALSE

\* The duplicate-symbol scan at the head of handleNewOpportunity.
SymbolAlreadyOpen(open, symbol) ==
    \E k \in 1..Len(open) : open[k].symbol = symbol

\* avgPnl of an open pairing at the current market prices.
avgPnl(pair, currentPositionPrices, cfg) ==
    LET one == One(cfg)
        longFee == taker(cfg, pair.longPosition.exchange)
        shortFee == taker(cfg, pair.shortPosition.exchange)
        slippage == cfg.slippage
        longEntryPrice == pair.longPosition.entryPrice * (one + longFee + slippage)
        longExitPrice == currentPositionPrices.buyPrice * (one - longFee - slippage)
        shortEntryPrice == pair.shortPosition.entryPrice * (one - shortFee - slippage)
        shortExitPrice == currentPositionPrices.sellPrice * (one + shortFee + slippage)
        longPnl == Rat(longExitPrice - longEntryPrice, longEntryPrice)
        shortPnl == Rat(shortEntryPrice - shortExitPrice, shortEntryPrice)
    IN  Rat(longPnl.n * shortPnl.d + shortPnl.n * longPnl.d,
            2 * longPnl.d * shortPnl.d)

\* variant: the threshold test never passes
AtOrAboveNotifyNever(pnl, cfg) == FALSE

\* variant: the threshold test always passes
AtOrAboveNotifyAlways(pnl, cfg) == TRUE

\* avgPnl >= config.notifications.minSpreadToNotify
AtOrAboveNotify(pnl, cfg) == ~PctBelow(pnl, cfg.minSpreadToNotify, cfg.pctDen)

\* variant: an equal profit replaces too
MoreProfitableOrEqual(opp, pnl) == ~RatLess(opp.profitPercent, pnl)

\* variant: the comparison is inverted
MoreProfitableInverted(opp, pnl) == RatLess(opp.profitPercent, pnl)

\* opportunity.profitPercent > avgPnl
MoreProfitable(opp, pnl) == RatLess(pnl, opp.profitPercent)

\* variant: no return after a replacement
RECURSIVE ReplacementPassKeepsGoing(_, _, _, _, _, _)
ReplacementPassKeepsGoing(open, i, opp, cfg, bc, mc) ==
    IF i > Len(open) THEN <<>>
    ELSE LET pair == open[i]
             currentPositionPrices == getCurrentPrices(bc, mc, pair.symbol)
         IN  IF currentPositionPrices = None
             THEN ReplacementPassKeepsGoing(open, i + 1, opp, cfg, bc, mc)
             ELSE LET pnl == avgPnl(pair, currentPositionPrices, cfg)
                  IN  IF AtOrAboveNotify(pnl, cfg)
                      THEN IF MoreProfitable(opp, pnl)
                           THEN <<CloseCall(pair, currentPositionPrices), OpenCall(opp)>>
                                \o ReplacementPassKeepsGoing(open, i + 1, opp, cfg, bc, mc)
                           ELSE ReplacementPassKeepsGoing(open, i + 1, opp, cfg, bc, mc)
                      ELSE <<SkipCall(opp, "POSITION_NOT_PROFITABLE", pnl)>>

\* variant: a pairing without current prices ends the pass
RECURSIVE ReplacementPassStopsOnMissingPrice(_, _, _, _, _, _)
ReplacementPassStopsOnMissingPrice(open, i, opp, cfg, bc, mc) ==
    IF i > Len(open) THEN <<SkipCall(opp, "NO_FREE_SLOTS", None)>>
    ELSE LET pair == open[i]
             currentPositionPrices == getCurrentPrices(bc, mc, pair.symbol)
         IN  IF currentPositionPrices = None
             THEN <<SkipCall(opp, "NO_FREE_SLOTS", None)>>
             ELSE LET pnl == avgPnl(pair, currentPositionPrices, cfg)
                  IN  IF AtOrAboveNotify(pnl, cfg)
                      THEN IF MoreProfitable(opp, pnl)
                           THEN <<CloseCall(pair, currentPositionPrices), OpenCall(opp)>>
                           ELSE ReplacementPassStopsOnMissingPrice(open, i + 1, opp, cfg, bc, mc)
                      ELSE <<SkipCall(opp, "POSITION_NOT_PROFITABLE", pnl)>>

\* variant: no return after the POSITION_NOT_PROFITABLE record
RECURSIVE ReplacementPassFallThrough(_, _, _, _, _, _)
ReplacementPassFallThrough(open, i, opp, cfg, bc, mc) ==
    IF i > Len(open) THEN <<SkipCall(opp, "NO_FREE_SLOTS", None)>>
    ELSE LET pair == open[i]
             currentPositionPrices == getCurrentPrices(bc, mc, pair.symbol)
         IN  IF currentPositionPrices = None
             THEN ReplacementPassFallThrough(open, i + 1, opp, cfg, bc, mc)
             ELSE LET pnl == avgPnl(pair, currentPositionPrices, cfg)
                  IN  IF AtOrAboveNotify(pnl, cfg)
                      THEN IF MoreProfitable(opp, pnl)
                           THEN <<CloseCall(pair, currentPositionPrices), OpenCall(opp)>>
                           ELSE ReplacementPassFallThrough(open, i + 1, opp, cfg, bc, mc)
                      ELSE <<SkipCall(opp, "POSITION_NOT_PROFITABLE", pnl)>>
                           \o ReplacementPassFallThrough(open, i + 1, opp, cfg, bc, mc)

\* variant: the replaced pairing is not closed
RECURSIVE ReplacementPassNoClose(_, _, _, _, _, _)
ReplacementPassNoClose(open, i, opp, cfg, bc, mc) ==
    IF i > Len(open) THEN <<SkipCall(opp, "NO_FREE_SLOTS", None)>>
    ELSE LET pair == open[i]
             currentPositionPrices == getCurrentPrices(bc, mc, pair.symbol)
         IN  IF currentPositionPrices = None
             THEN ReplacementPassNoClose(open, i + 1, opp, cfg, bc, mc)
             ELSE LET pnl == avgPnl(pair, currentPositionPrices, cfg)
                  IN  IF AtOrAboveNotify(pnl, cfg)
                      THEN IF MoreProfitable(opp, pnl)
                           THEN <<OpenCall(opp)>>
                           ELSE ReplacementPassNoClose(open, i + 1, opp, cfg, bc, mc)
                      ELSE <<SkipCall(opp, "POSITION_NOT_PROFITABLE", pnl)>>

\* The replacement pass over the open pairings from index i on, followed by
\* the NO_FREE_SLOTS record that ends handleNewOpportunity.
RECURSIVE ReplacementPass(_, _, _, _, _, _)
ReplacementPass(open, i, opp, cfg, bc, mc) ==
    IF i > Len(open) THEN <<SkipCall(opp, "NO_FREE_SLOTS", None)>>
    ELSE LET pair == open[i]
             currentPositionPrices == getCurrentPrices(bc, mc, pair.symbol)
         IN  IF currentPositionPrices = None
             THEN ReplacementPass(open, i + 1, opp, cfg, bc, mc)
             ELSE LET pnl == avgPnl(pair, currentPositionPrices, cfg)
                  IN  IF AtOrAboveNotify(pnl, cfg)
                      THEN IF MoreProfitable(opp, pnl)
                           THEN <<CloseCall(pair, currentPositionPrices), OpenCall(opp)>>
                           ELSE ReplacementPass(open, i + 1, opp, cfg, bc, mc)
                      ELSE <<SkipCall(opp, "POSITION_NOT_PROFITABLE", pnl)>>

\* variant: the replacement pass runs whatever the configuration says
handleNewOpportunityAlwaysReplaces(open, opp, cfg, bc, mc) ==
    IF SymbolAlreadyOpen(open, opp.symbol) THEN <<>>
    ELSE IF canOpenNewPosition(open, cfg) THEN <<OpenCall(opp)>>
    ELSE ReplacementPass(open, 1, opp, cfg, bc, mc)

\* variant: a duplicate instrument is recorded as a skip
handleNewOpportunityRecordsDuplicate(open, opp, cfg, bc, mc) ==
    IF SymbolAlreadyOpen(open, opp.symbol)
    THEN <<SkipCall(opp, "SYMBOL_ALREADY_OPEN", None)>>
    ELSE IF canOpenNewPosition(open, cfg) THEN <<OpenCall(opp)>>
    ELSE IF cfg.closeOnNewOpportunity
    THEN ReplacementPass(open, 1, opp, cfg, bc, mc)
    ELSE <<SkipCall(opp, "NO_FREE_SLOTS", None)>>

\* variant: the free-slot branch is missing
handleNewOpportunityNoFreeSlotCheck(open, opp, cfg, bc, mc) ==
    IF SymbolAlreadyOpen(open, opp.symbol) THEN <<>>
    ELSE IF cfg.closeOnNewOpportunity
    THEN ReplacementPass(open, 1, opp, cfg, bc, mc)
    ELSE <<SkipCall(opp, "NO_FREE_SLOTS", None)>>

\* handleNewOpportunity: the ledger calls it makes for an opportunity.
handleNewOpportunity(open, opp, cfg, bc, mc) ==
    IF SymbolAlreadyOpen(open, opp.symbol) THEN <<>>
    ELSE IF canOpenNewPosition(open, cfg) THEN <<OpenCall(opp)>>
    ELSE IF cfg.closeOnNewOpportunity
    THEN ReplacementPass(open, 1, opp, cfg, bc, mc)
    ELSE <<SkipCall(opp, "NO_FREE_SLOTS", None)>>

\* ------------------------------------------------------------------ events
\* ev records the last step: the tick, the counterpart price found, the
\* opportunity constructed, the ledger calls made for it and the open
\* pairings before the step.
Event(kind, price, otherPrice, opp, calls, preOpen) ==
    [kind |-> kind, price |-> price, otherPrice |-> otherPrice,
     opportunity |-> opp, calls |-> calls, preOpen |-> preOpen]

\* The counterpart lookup of onPriceUpdate.
otherPriceOf(price, bc, mc) ==
    LET normalizedSymbol == toCommonFormat(price.symbol)
    IN  IF price.exchange = "binance"
        THEN getPrice(mc, toMexcFormat(normalizedSymbol))
        ELSE getPrice(bc, normalizedSymbol)

\* variant: a missing counterpart price is replaced by a zero book
detectDefaultsMissing(price, otherPrice, cfg) ==
    checkArbitrage(price,
                   IF otherPrice = None
                   THEN TickerPrice(price.symbol, 0, 0, 0,
                                    IF price.exchange = "binance" THEN "mexc"
                                    ELSE "binance")
                   ELSE otherPrice,
                   toCommonFormat(price.symbol), cfg)

\* onPriceUpdate down to the opportunity checkArbitrage constructs.
detect(price, otherPrice, cfg) ==
    IF otherPrice = None THEN None
    ELSE checkArbitrage(price, otherPrice, toCommonFormat(price.symbol), cfg)

\* variant: the trading switch is not consulted
dispatchIgnoresEnabled(open, opp, cfg, bc, mc) ==
    IF opp = None THEN <<>>
    ELSE handleNewOpportunity(open, opp, cfg, bc, mc)

\* The tail of checkArbitrage: trading on or off.
dispatch(open, opp, cfg, bc, mc) ==
    IF opp = None \/ ~cfg.enabled THEN <<>>
    ELSE handleNewOpportunity(open, opp, cfg, bc, mc)

\* onPriceUpdate with the caches as they are after the tick was stored.
onPriceUpdate(price, bc, mc) ==
    LET otherPrice == otherPriceOf(price, bc, mc)
        opp == detect(price, otherPrice, config)
        calls == dispatch(openPositions, opp, config, bc, mc)
    IN  /\ openPositions' = ApplyToLedger(openPositions, calls)
        /\ skippedOpportunities' = ApplyToSkipped(skippedOpportunities, calls)
        /\ stats' = [totalComparisons |->
                        stats.totalComparisons + (IF otherPrice = None THEN 0 ELSE 1),
                     opportunitiesFound |->
                        stats.opportunitiesFound + (IF opp = None THEN 0 ELSE 1)]
        /\ ev' = Event("tick", price, otherPrice, opp, calls, openPositions)

\* Room left in the bounded counters and log.
Bounded ==
    /\ stats.totalComparisons < MaxComparisons
    /\ Len(skippedOpportunities) < MaxSkipped

\* Binance message handler: a bookTicker message for symbol s.
BinanceTick(s, q) ==
    /\ Bounded
    /\ LET price == TickerPrice(s, q.bid, q.bid, q.ask, "binance")
       IN  /\ binanceCache' = CacheSet(binanceCache, price.symbol, price)
           /\ mexcCache' = mexcCache
           /\ onPriceUpdate(price, binanceCache', mexcCache')
    /\ UNCHANGED <<config, cost, connVars, fn, scriptVars>>

\* MEXC message handler: a push.ticker message for symbol s.
MexcTick(s, q) ==
    /\ Bounded
    /\ LET price == TickerPrice(s, q.bid, q.bid, q.ask, "mexc")
       IN  /\ mexcCache' = CacheSet(mexcCache, price.symbol, price)
           /\ binanceCache' = binanceCache
           /\ onPriceUpdate(price, binanceCache', mexcCache')
    /\ UNCHANGED <<config, cost, connVars, fn, scriptVars>>

\* A close raised by the ledger itself (timeout, manual, convergence).
LedgerClose(k) ==
    /\ k \in 1..Len(openPositions)
    /\ openPositions' = closePositionManually(openPositions, openPositions[k].id)
    /\ ev' = Event("close", None, None, None, <<>>, openPositions)
    /\ UNCHANGED <<config, binanceCache, mexcCache, skippedOpportunities, stats, cost,
                   connVars, fn, scriptVars>>

\* The position of start() / stop(): nothing has run yet.
BootNew(useWebSocket) ==
    [pc |-> "new", useWebSocket |-> useWebSocket, health |-> None,
     fetchCalled |-> FALSE, commonSymbols |-> <<>>,
     tradeExecutorStarted |-> FALSE,
     minuteSummary |-> FALSE, stopped |-> FALSE]

\* The venue clients and the connection monitor right after construction:
\* no connection (ws = 0 is the null handle), no timer, no downtime.
InitClients ==
    /\ ws = [e \in Exchanges |-> 0]
    /\ sockets = [e \in Exchanges |-> <<>>]
    /\ pingInterval = [e \in Exchanges |-> 0]
    /\ intervals = [e \in Exchanges |-> {}]
    /\ timers = [e \in Exchanges |-> {}]
    /\ currentDowntime = [e \in Exchanges |-> None]
    /\ downtimes = <<>>
    /\ hist = [disconnects |-> [e \in Exchanges |-> 0],
               episodes |-> [e \in Exchanges |-> 0],
               reconnects |-> [e \in Exchanges |-> 0],
               ticks |-> [e \in Exchanges |-> EmptyMap],
               dropped |-> [e \in Exchanges |-> {}]]
    /\ lastCall = None

InitConnVars == InitClients /\ boot = BootNew(TRUE)

Init ==
    /\ config \in Configs
    /\ binanceCache = EmptyMap
    /\ mexcCache = EmptyMap
    /\ openPositions = <<>>
    /\ skippedOpportunities = <<>>
    /\ stats = [totalComparisons |-> 0, opportunitiesFound |-> 0]
    /\ ev = Event("init", None, None, None, <<>>, <<>>)
    /\ cost = None
    /\ InitConnVars
    /\ ScriptNotRun
    /\ fn = None

Next ==
    \/ \E s \in commonSymbols : \E q \in Feed("binance", s) : BinanceTick(s, q)
    \/ \E s \in mexcSymbols : \E q \in Feed("mexc", s) : MexcTick(s, q)
    \/ \E k \in 1..Len(openPositions) : LedgerClose(k)

Spec == Init /\ [][Next]_vars

\* ============================================================== properties
\* Predicates over the last step (ev) used by the properties below; they
\* restate the situations in their own terms, not through the operators of
\* the engine.
Ticked == ev.kind = "tick"

Emitted == Ticked /\ ev.opportunity # None

\* handleNewOpportunity was entered for the emitted opportunity
Handled == Emitted /\ config.enabled

HasPairingFor(open, symbol) ==
    {k \in 1..Len(open) : open[k].symbol = symbol} # {}

CountOp(calls, op) == Cardinality({k \in 1..Len(calls) : calls[k].op = op})

SlotsFull == Len(ev.preOpen) >= config.maxOpenPositions

\* handleNewOpportunity reached the slots-full part for a new instrument
FullAndNew ==
    Handled /\ SlotsFull /\ ~HasPairingFor(ev.preOpen, ev.opportunity.symbol)

PricesOf(k) == getCurrentPrices(binanceCache, mexcCache, ev.preOpen[k].symbol)

PnlOf(k) == avgPnl(ev.preOpen[k], PricesOf(k), config)

HasPnl(k) == PricesOf(k) # None

BelowNotify(k) ==
    HasPnl(k) /\ PctBelow(PnlOf(k), config.minSpreadToNotify, config.pctDen)

NotBelowNotify(k) ==
    HasPnl(k) /\ ~PctBelow(PnlOf(k), config.minSpreadToNotify, config.pctDen)

Exceeded(k) ==
    HasPnl(k) /\ PnlOf(k).n * ev.opportunity.profitPercent.d
                    < ev.opportunity.profitPercent.n * PnlOf(k).d

Before(k) == 1..(k - 1)

NoLedgerCall == CountOp(ev.calls, "open") = 0 /\ CountOp(ev.calls, "close") = 0

OneSkip(reason) ==
    /\ Len(ev.calls) = 1
    /\ ev.calls[1].op = "skip"
    /\ ev.calls[1].reason = reason
    /\ ev.calls[1].opportunity = ev.opportunity

\* exactly one close of pairing k of the pre-state, then one open of the
\* opportunity
ReplacedPairing(k) ==
    /\ Len(ev.calls) = 2
    /\ ev.calls[1].op = "close" /\ ev.calls[1].pairId = ev.preOpen[k].id
    /\ ev.calls[2].op = "open" /\ ev.calls[2].opportunity = ev.opportunity
    /\ HasPairingFor(openPositions, ev.opportunity.symbol)
    /\ \A j \in 1..Len(openPositions) : openPositions[j] # ev.preOpen[k]
    /\ Len(openPositions) = Len(ev.preOpen)

\* C1: after any sequence of ticks, opportunities, replacements and ledger
\* closes, no instrument has two or more open pairings.
InvC1_AtMostOnePairingPerInstrument ==
    \A i, j \in 1..Len(openPositions) :
        openPositions[i].symbol = openPositions[j].symbol => i = j

\* An opportunity arrived for an instrument that already had a pairing, and
\* the pairing is still the only one for it.
WitC1_DuplicateOpportunityArrived ==
    /\ Handled
    /\ HasPairingFor(ev.preOpen, ev.opportunity.symbol)
    /\ Cardinality({k \in 1..Len(openPositions) :
                      openPositions[k].symbol = ev.opportunity.symbol}) = 1

\* C2 as stated: slots full (replacement enabled) and every open pairing
\* below the notify threshold => exactly one NO_FREE_SLOTS skip, no ledger open or close.
CexC2_AllBelowGivesNoFreeSlots ==
    (FullAndNew /\ config.closeOnNewOpportunity /\ \A k \in 1..Len(ev.preOpen) : BelowNotify(k))
        => (OneSkip("NO_FREE_SLOTS") /\ NoLedgerCall)

\* C2 amended: slots full and every open pairing priced and below the
\* notify threshold => exactly one skip and no ledger open or close; the
\* reason is POSITION_NOT_PROFITABLE, carrying the first pairing's profit,
\* when replacement is enabled and a pairing is open, NO_FREE_SLOTS otherwise.
InvC2_AllBelowGivesOneSkip ==
    (FullAndNew /\ \A k \in 1..Len(ev.preOpen) : BelowNotify(k))
        => /\ NoLedgerCall
           /\ openPositions = ev.preOpen
           /\ IF config.closeOnNewOpportunity /\ Len(ev.preOpen) > 0
              THEN /\ OneSkip("POSITION_NOT_PROFITABLE")
                   /\ ev.calls[1].currentPositionProfit = PnlOf(1)
              ELSE OneSkip("NO_FREE_SLOTS")

WitC2_AllBelowSkipped ==
    /\ FullAndNew
    /\ config.closeOnNewOpportunity
    /\ Len(ev.preOpen) = 2
    /\ \A k \in 1..Len(ev.preOpen) : BelowNotify(k)
    /\ OneSkip("POSITION_NOT_PROFITABLE")

\* C3 as stated: slots full (replacement enabled) and some pairing at or above the threshold and
\* exceeded by the opportunity => that pairing is closed and the opportunity
\* opened, whatever comes before it.
CexC3_AnyQualifyingPairingReplaced ==
    \A k \in 1..Len(ev.preOpen) :
        ( /\ FullAndNew /\ config.closeOnNewOpportunity
          /\ NotBelowNotify(k) /\ Exceeded(k) ) => ReplacedPairing(k)

\* C3 amended: with replacement enabled, slots full, pairing k at or above
\* the threshold and exceeded by the opportunity, and every pairing before k
\* at or above the threshold and not exceeded => exactly one close, of k,
\* then exactly one open of the opportunity.
InvC3_FirstQualifyingPairingReplaced ==
    \A k \in 1..Len(ev.preOpen) :
        ( /\ FullAndNew /\ config.closeOnNewOpportunity
          /\ NotBelowNotify(k) /\ Exceeded(k)
          /\ \A j \in Before(k) : NotBelowNotify(j) /\ ~Exceeded(j) )
        => ReplacedPairing(k)

\* The second pairing was replaced, the first one passed over.
WitC3_SecondPairingReplaced ==
    /\ FullAndNew /\ config.closeOnNewOpportunity
    /\ Len(ev.preOpen) = 2
    /\ NotBelowNotify(1) /\ ~Exceeded(1)
    /\ NotBelowNotify(2) /\ Exceeded(2)
    /\ ReplacedPairing(2)
\* The counterpart venue's cache holds nothing for the tick's instrument.
CounterpartAbsent ==
    /\ Ticked
    /\ LET other == IF ev.price.exchange = "binance" THEN mexcCache ELSE binanceCache
       IN  \A s \in DOMAIN other :
              toCommonFormat(s) # toCommonFormat(ev.price.symbol)

Untouched == ev.calls = <<>> /\ openPositions = ev.preOpen

\* C4: a tick whose counterpart venue has no cached price for the instrument
\* emits no opportunity, makes no ledger call and records no skip.
InvC4_NoCounterpartNoOpportunity ==
    CounterpartAbsent => (ev.opportunity = None /\ Untouched)

\* A tick without counterpart arrived while a pairing was open.
WitC4_TickWithoutCounterpart ==
    CounterpartAbsent /\ Len(ev.preOpen) > 0 /\ ev.opportunity = None /\ Untouched

\* The raw arbitrage of the last tick against its counterpart: <<buy, sell>>,
\* or <<>> when there is none.
RawArbitrage ==
    IF ~Ticked \/ ev.otherPrice = None THEN <<>>
    ELSE IF ev.price.ask < ev.otherPrice.bid THEN <<ev.price.ask, ev.otherPrice.bid>>
    ELSE IF ev.otherPrice.ask < ev.price.bid THEN <<ev.otherPrice.ask, ev.price.bid>>
    ELSE <<>>

\* gross spread percent of <<buy, sell>> below the configured minimum
GrossBelowMin(a) ==
    (a[2] - a[1]) * 100 * config.pctDen < config.minSpreadPercent * a[1]

\* C5 as stated: an emitted opportunity has net profit percent at or above
\* the configured minimum.
CexC5_EmittedHasNetAtOrAboveMin ==
    Emitted => ~PctBelow(ev.opportunity.profitPercent,
                         config.minSpreadPercent, config.pctDen)

\* C5 amended: an opportunity is emitted only if its gross spread percent is
\* at or above the configured minimum; a tick whose gross spread percent is
\* below it produces no opportunity, no ledger call and no skip record.
InvC5_EmittedIffGrossAtOrAboveMin ==
    /\ Emitted => ~GrossBelowMin(<<ev.opportunity.buyPrice, ev.opportunity.sellPrice>>)
    /\ (RawArbitrage # <<>> /\ GrossBelowMin(RawArbitrage))
          => (ev.opportunity = None /\ Untouched)
    /\ (RawArbitrage # <<>> /\ ~GrossBelowMin(RawArbitrage)) => Emitted

\* A raw arbitrage below the minimum was filtered where trading is enabled
\* and a slot is free.
WitC5_GrossBelowMinFiltered ==
    /\ RawArbitrage # <<>> /\ GrossBelowMin(RawArbitrage)
    /\ config.enabled /\ config.minSpreadPercent = 10
    /\ ev.opportunity = None /\ Untouched

LedgerEffect ==
    \/ Len(ev.calls) = 1 /\ ev.calls[1].op = "open"
    \/ Len(ev.calls) = 2 /\ ev.calls[1].op = "close" /\ ev.calls[2].op = "open"

SkipOnly == Len(ev.calls) = 1 /\ ev.calls[1].op = "skip"

\* C6 as stated (trading enabled): every constructed opportunity has exactly
\* one outcome, a ledger effect or one skip record, never both, never neither.
CexC6_EveryOpportunityHasOneOutcome ==
    (Emitted /\ config.enabled)
        => ((LedgerEffect \/ SkipOnly) /\ ~(LedgerEffect /\ SkipOnly))

\* C6 amended: an opportunity constructed while trading is enabled, for an
\* instrument without an open pairing, has exactly one outcome: a ledger
\* effect (an open, or a close then an open) or exactly one skip record; an
\* opportunity for an instrument with an open pairing, or any opportunity
\* while trading is disabled, has neither.
InvC6_OneOutcomeUnlessDuplicateOrDisabled ==
    Emitted =>
        IF config.enabled /\ ~HasPairingFor(ev.preOpen, ev.opportunity.symbol)
        THEN /\ LedgerEffect \/ SkipOnly
             /\ ~(LedgerEffect /\ SkipOnly)
             /\ SkipOnly => openPositions = ev.preOpen
             /\ LedgerEffect => HasPairingFor(openPositions, ev.opportunity.symbol)
        ELSE Untouched

\* A skip outcome with two pairings open.
WitC6_SkipOutcome ==
    /\ Emitted /\ config.enabled
    /\ ~HasPairingFor(ev.preOpen, ev.opportunity.symbol)
    /\ SkipOnly /\ ~LedgerEffect
    /\ ev.calls[1].reason = "POSITION_NOT_PROFITABLE"

InvC8_FreeSlotOpens ==
    ( /\ Handled
      /\ ~HasPairingFor(ev.preOpen, ev.opportunity.symbol)
      /\ Len(ev.preOpen) < config.maxOpenPositions )
    => /\ Len(ev.calls) = 1
       /\ ev.calls[1].op = "open"
       /\ ev.calls[1].opportunity = ev.opportunity
       /\ Len(openPositions) = Len(ev.preOpen) + 1
       /\ SubSeq(openPositions, 1, Len(ev.preOpen)) = ev.preOpen
       /\ LET p == openPositions[Len(openPositions)]
          IN  /\ p.symbol = ev.opportunity.symbol
              /\ p.longPosition.entryPrice = ev.opportunity.buyPrice
              /\ p.shortPosition.entryPrice = ev.opportunity.sellPrice

\* The second slot was filled by a plain open.
WitC8_SecondSlotOpened ==
    /\ Handled /\ Len(ev.preOpen) = 1 /\ Len(openPositions) = 2
    /\ Len(ev.calls) = 1 /\ ev.calls[1].op = "open"

\* C9: the number of open pairings never exceeds the configured maximum.
InvC9_OpenCountWithinMaximum ==
    Len(openPositions) <= config.maxOpenPositions

\* A replacement happened with every slot taken, and every slot is still
\* taken.
WitC9_ReplacementKeepsCount ==
    /\ FullAndNew
    /\ CountOp(ev.calls, "close") = 1 /\ CountOp(ev.calls, "open") = 1
    /\ Len(openPositions) = config.maxOpenPositions
\* ------------------------------------------------------ cost model alone
\* checkArbitrage applied to two given tickers under a given configuration.
\* Here percentages are in hundredths of a percent (pctDen = 100) and prices
\* in tenths, so that 1000 / 1005 at fees 8, 8 and slippage 10 is the case
\* buyPrice = 100, sellPrice = 100.5, taker fees 0.08 %, slippage 0.1 %.
CostConfigs ==
    { CfgIn(100, m, 10, tb, tm, sl, FALSE, FALSE, 0) :
        m \in {0, 30}, tb \in {0, 8}, tm \in {0, 8}, sl \in {0, 10} }

CostQuotes == { Quote(999, 1000), Quote(1000, 1001),
                Quote(1005, 1006), Quote(1010, 1011) }

CostSymbol == <<"A">> \o USDT

CostCheck(q1, q2, e1) ==
    LET e2 == IF e1 = "binance" THEN "mexc" ELSE "binance"
        price1 == TickerPrice(CostSymbol, q1.bid, q1.bid, q1.ask, e1)
        price2 == TickerPrice(CostSymbol, q2.bid, q2.bid, q2.ask, e2)
    IN  /\ cost' = [price1 |-> price1, price2 |-> price2,
                    opportunity |-> checkArbitrage(price1, price2, CostSymbol, config)]
        /\ UNCHANGED <<config, binanceCache, mexcCache, openPositions,
                       skippedOpportunities, stats, ev, connVars, fn, scriptVars>>

InitCost ==
    /\ config \in CostConfigs
    /\ binanceCache = EmptyMap
    /\ mexcCache = EmptyMap
    /\ openPositions = <<>>
    /\ skippedOpportunities = <<>>
    /\ stats = [totalComparisons |-> 0, opportunitiesFound |-> 0]
    /\ ev = Event("init", None, None, None, <<>>, <<>>)
    /\ cost = [price1 |-> None, price2 |-> None, opportunity |-> None]
    /\ InitConnVars
    /\ ScriptNotRun
    /\ fn = None

NextCost == \E q1 \in CostQuotes, q2 \in CostQuotes, e1 \in Exchanges : CostCheck(q1, q2, e1)

SpecCost == InitCost /\ [][NextCost]_vars

\* C10: for every emitted opportunity, with non-negative taker fees and
\* slippage that are not all zero, the net profit percent is strictly less
\* than the gross spread percent.
InvC10_NetBelowGross ==
    ( /\ cost.opportunity # None
      /\ config.takerBinance >= 0 /\ config.takerMexc >= 0 /\ config.slippage >= 0
      /\ config.takerBinance + config.takerMexc + config.slippage > 0 )
    => cost.opportunity.profitPercent.n * cost.opportunity.spreadPercent.d
          < cost.opportunity.spreadPercent.n * cost.opportunity.profitPercent.d

\* buyPrice 100, sellPrice 100.5, taker fees 0.08 % each, slippage 0.1 %:
\* gross 0.5 %, net below it.
WitC10_SpecExample ==
    /\ cost.opportunity # None
    /\ cost.opportunity.buyPrice = 1000 /\ cost.opportunity.sellPrice = 1005
    /\ config.pctDen = 100
    /\ config.takerBinance = 8 /\ config.takerMexc = 8 /\ config.slippage = 10
    /\ cost.opportunity.spreadPercent.n * 1000 = 5 * cost.opportunity.spreadPercent.d
    /\ cost.opportunity.profitPercent.n * cost.opportunity.spreadPercent.d
          < cost.opportunity.spreadPercent.n * cost.opportunity.profitPercent.d
    /\ cost.opportunity.profitPercent.n > 0

\* ---------------------------------------------------- instrument discovery
\* String.prototype.endsWith
endsWith(s, suffix) ==
    /\ Len(s) >= Len(suffix)
    /\ SubSeq(s, Len(s) - Len(suffix) + 1, Len(s)) = suffix

\* One row of a venue's 24h ticker answer: the symbol and the traded volume
\* in USDT (quoteVolume on Binance, amount24 on MEXC).
Ticker(symbol, volume) == [symbol |-> symbol, volume |-> volume]

\* TradingPair (src/src/types/exchange.ts)
TradingPair(symbol, baseAsset, volume24h) ==
    [symbol |-> symbol, baseAsset |-> baseAsset, quoteAsset |-> USDT,
     volume24h |-> volume24h]

\* the rows of a ticker answer
Rows(rows) == [rows |-> rows]

\* The answer of a REST call: the endpoint was reached or not, the status
\* was a success status or not, and the body (MEXC wraps its rows in
\* {success, data}); data is Rows(..), or None for a body without rows.
Response(reachable, ok, success, data) ==
    [reachable |-> reachable, ok |-> ok, success |-> success, data |-> data]

\* the outcome of a call: an error was thrown, or a value was returned
Thrown == [thrown |-> TRUE]

Returned(value) == [thrown |-> FALSE, value |-> value]

\* the suffix the venue's filter keeps
UsdtSuffix(exchange) == IF exchange = "binance" THEN USDT ELSE <<"_">> \o USDT

\* Array.prototype.filter
Filter(data, suffix) == SelectSeq(data, LAMBDA t : endsWith(t.symbol, suffix))

InsertByVolumeAscending(sorted, t) ==
    LET n == Cardinality({k \in 1..Len(sorted) : sorted[k].volume <= t.volume})
    IN  SubSeq(sorted, 1, n) \o <<t>> \o SubSeq(sorted, n + 1, Len(sorted))

\* One step of the stable descending sort: t goes behind every row whose
\* volume is not lower.
InsertByVolume(sorted, t) ==
    LET n == Cardinality({k \in 1..Len(sorted) : sorted[k].volume >= t.volume})
    IN  SubSeq(sorted, 1, n) \o <<t>> \o SubSeq(sorted, n + 1, Len(sorted))

\* Array.prototype.sort((a, b) => b.volume - a.volume): stable, descending.
RECURSIVE SortByVolumeDesc(_)
SortByVolumeDesc(data) ==
    IF data = <<>> THEN <<>>
    ELSE InsertByVolume(SortByVolumeDesc(SubSeq(data, 1, Len(data) - 1)),
                        data[Len(data)])

\* Array.prototype.slice(0, limit), limit >= 0
Slice(data, limit) ==
    SubSeq(data, 1, IF limit < Len(data) THEN limit ELSE Len(data))

\* BinanceFutures.getTopPairs / MexcFutures.getTopPairs
getTopPairs(exchange, response, limit) ==
    IF ~response.reachable THEN Thrown
    ELSE IF ~response.ok THEN Thrown
    ELSE IF exchange = "mexc" /\ (~response.success \/ response.data = None)
    THEN Thrown
    \* a body that is no array: data.filter throws, the catch rethrows
    ELSE IF response.data = None THEN Thrown
    ELSE LET suffix == UsdtSuffix(exchange)
             usdtPairs == Slice(SortByVolumeDesc(Filter(response.data.rows, suffix)), limit)
         IN  Returned([k \in 1..Len(usdtPairs) |->
                 TradingPair(usdtPairs[k].symbol,
                             ReplaceFirst(usdtPairs[k].symbol, suffix, <<>>),
                             usdtPairs[k].volume)])

\* variant: the configured exclusions are not applied
fetchTopPairsIgnoresExclude(binanceResponse, mexcResponse, topPairsCount, excludePairs) ==
    LET binancePairs == getTopPairs("binance", binanceResponse, topPairsCount)
        mexcPairs == getTopPairs("mexc", mexcResponse, topPairsCount)
    IN  IF binancePairs.thrown \/ mexcPairs.thrown THEN Thrown
        ELSE LET mexcSymbolsConverted ==
                     {toCommonFormat(mexcPairs.value[k].symbol) :
                         k \in 1..Len(mexcPairs.value)}
                 binanceSymbols ==
                     [k \in 1..Len(binancePairs.value) |-> binancePairs.value[k].symbol]
                 common == SelectSeq(binanceSymbols,
                               LAMBDA s : s \in mexcSymbolsConverted)
             IN  IF common = <<>> THEN Thrown ELSE Returned(common)

\* ArbitrageDetector.fetchTopPairs: the symbols both venues returned, in
\* Binance format and Binance order, without the excluded ones; an error
\* when a venue call fails or nothing is left.
fetchTopPairs(binanceResponse, mexcResponse, topPairsCount, excludePairs) ==
    LET binancePairs == getTopPairs("binance", binanceResponse, topPairsCount)
        mexcPairs == getTopPairs("mexc", mexcResponse, topPairsCount)
    IN  IF binancePairs.thrown \/ mexcPairs.thrown THEN Thrown
        ELSE LET mexcSymbolsConverted ==
                     {toCommonFormat(mexcPairs.value[k].symbol) :
                         k \in 1..Len(mexcPairs.value)}
                 binanceSymbols ==
                     [k \in 1..Len(binancePairs.value) |-> binancePairs.value[k].symbol]
                 common == SelectSeq(binanceSymbols,
                               LAMBDA s : s \in mexcSymbolsConverted
                                          /\ s \notin excludePairs)
             IN  IF common = <<>> THEN Thrown ELSE Returned(common)

\* ---------------------------------------------- discovery: inputs, steps
MaxTickers == 3

Sym(base) == base \o USDT

MexcSym(base) == base \o <<"_">> \o USDT

USDC == <<"U", "S", "D", "C">>

\* What Binance lists: USDT-quoted perpetuals (two of equal volume), one
\* whose base asset is itself a dollar coin, a USDC-quoted contract and a
\* dated delivery contract.
BinanceTickers ==
    { Ticker(Sym(<<"A">>), 5), Ticker(Sym(<<"B">>), 9), Ticker(Sym(<<"C">>), 5),
      Ticker(Sym(USDC), 7), Ticker(<<"A">> \o USDC, 8),
      Ticker(Sym(<<"B">>) \o <<"_", "1">>, 6) }

\* What MEXC lists.
MexcTickers ==
    { Ticker(MexcSym(<<"A">>), 4), Ticker(MexcSym(<<"B">>), 9),
      Ticker(MexcSym(<<"C">>), 4), Ticker(MexcSym(USDC), 6),
      Ticker(<<"A", "_">> \o USDC, 8), Ticker(MexcSym(<<"D">>), 3) }

TickersOf(exchange) == IF exchange = "binance" THEN BinanceTickers ELSE MexcTickers

\* ticker answers of at most n rows, no symbol twice
Listings(pool, n) ==
    UNION { { l \in [1..k -> pool] : \A i, j \in 1..k : l[i] = l[j] => i = j } :
            k \in 0..n }

Responses(exchange) ==
    { Response(FALSE, FALSE, FALSE, None), Response(TRUE, FALSE, FALSE, None),
      Response(TRUE, TRUE, FALSE, None) }
    \cup { Response(TRUE, TRUE, s, Rows(l)) :
             s \in BOOLEAN, l \in Listings(TickersOf(exchange), MaxTickers) }

\* one call of getTopPairs
GetTopPairs(exchange, response, limit) ==
    /\ fn = None
    /\ fn' = [op |-> "getTopPairs", exchange |-> exchange, response |-> response,
              limit |-> limit, result |-> getTopPairs(exchange, response, limit)]
    /\ UNCHANGED <<config, binanceCache, mexcCache, openPositions,
                   skippedOpportunities, stats, ev, cost, connVars, scriptVars>>

\* the full ticker answer of a venue, starting at any row
FullListing(exchange) ==
    IF exchange = "binance"
    THEN << Ticker(Sym(<<"A">>), 5), Ticker(<<"A">> \o USDC, 8),
            Ticker(Sym(<<"B">>), 9), Ticker(Sym(<<"B">>) \o <<"_", "1">>, 6),
            Ticker(Sym(<<"C">>), 5), Ticker(Sym(USDC), 7) >>
    ELSE << Ticker(MexcSym(<<"C">>), 4), Ticker(MexcSym(<<"D">>), 3),
            Ticker(MexcSym(<<"A">>), 4), Ticker(<<"A", "_">> \o USDC, 8),
            Ticker(MexcSym(USDC), 6), Ticker(MexcSym(<<"B">>), 9) >>

Rotations(l) ==
    { SubSeq(l, k, Len(l)) \o SubSeq(l, 1, k - 1) : k \in 1..Len(l) }

FullResponses(exchange) ==
    { Response(FALSE, FALSE, FALSE, None) }
    \cup { Response(TRUE, TRUE, TRUE, Rows(l)) : l \in Rotations(FullListing(exchange)) }

\* fetchTopPairs followed by the symbol conversion of
\* startWebSocketMonitoring (the MEXC subscription list).
FetchTopPairs(binanceResponse, mexcResponse, topPairsCount, excludePairs) ==
    /\ fn = None
    /\ LET result == fetchTopPairs(binanceResponse, mexcResponse,
                                   topPairsCount, excludePairs)
       IN  fn' = [op |-> "fetchTopPairs",
                  binancePairs |-> getTopPairs("binance", binanceResponse, topPairsCount),
                  mexcPairs |-> getTopPairs("mexc", mexcResponse, topPairsCount),
                  excludePairs |-> excludePairs,
                  result |-> result,
                  mexcSymbols |->
                      IF result.thrown THEN <<>>
                      ELSE [k \in 1..Len(result.value) |-> toMexcFormat(result.value[k])]]
    /\ UNCHANGED <<config, binanceCache, mexcCache, openPositions,
                   skippedOpportunities, stats, ev, cost, connVars, scriptVars>>

InitFn ==
    /\ config = Cfg(10, 1, 1, 0, 1, TRUE, TRUE, 2)
    /\ binanceCache = EmptyMap
    /\ mexcCache = EmptyMap
    /\ openPositions = <<>>
    /\ skippedOpportunities = <<>>
    /\ stats = [totalComparisons |-> 0, opportunitiesFound |-> 0]
    /\ ev = Event("init", None, None, None, <<>>, <<>>)
    /\ cost = None
    /\ InitConnVars
    /\ ScriptNotRun
    /\ fn = None

NextFn ==
    \/ \E e \in Exchanges : \E r \in Responses(e) : \E limit \in 0..MaxTickers :
          GetTopPairs(e, r, limit)
    \/ \E rb \in FullResponses("binance") : \E rm \in FullResponses("mexc") :
          \E n \in 0..MaxTickers : \E x \in {{}, {Sym(<<"B">>)}} :
             FetchTopPairs(rb, rm, n, x)

SpecFn == InitFn /\ [][NextFn]_vars

\* the set of the elements of a sequence
Range(seq) == {seq[k] : k \in 1..Len(seq)}

Discovered == fn # None /\ fn.op = "fetchTopPairs" /\ ~fn.result.thrown

\* tracked canonical symbols
TrackedCommon == Range(fn.result.value)

\* tracked native MEXC symbols: what MEXC listed for a tracked instrument
TrackedNative ==
    {s \in {fn.mexcPairs.value[k].symbol : k \in 1..Len(fn.mexcPairs.value)} :
        \E c \in TrackedCommon : SelectSeq(s, LAMBDA ch : ch # "_") = c}

\* C11: on the tracked universe the symbol conversions are inverse to each
\* other (native -> canonical -> native and canonical -> native ->
\* canonical give the symbol back), and no two distinct tracked symbols
\* share a canonical or a native form.
InvC11_SymbolRoundTrip ==
    Discovered =>
        /\ \A s \in TrackedNative : toMexcFormat(toCommonFormat(s)) = s
        /\ \A c \in TrackedCommon : toCommonFormat(toMexcFormat(c)) = c
        /\ \A s1, s2 \in TrackedNative :
              toCommonFormat(s1) = toCommonFormat(s2) => s1 = s2
        /\ \A c1, c2 \in TrackedCommon :
              toMexcFormat(c1) = toMexcFormat(c2) => c1 = c2
        /\ Range(fn.mexcSymbols) = TrackedNative

\* Discovery tracked several instruments, the dollar-coin one among them.
WitC11_SeveralTracked ==
    /\ Discovered
    /\ Cardinality(TrackedCommon) >= 3
    /\ Sym(USDC) \in TrackedCommon
    /\ MexcSym(USDC) \in TrackedNative

GotTopPairs == fn # None /\ fn.op = "getTopPairs"

\* the rows of the answer that are quoted in USDT
UsdtRows ==
    {t \in Range(fn.response.data.rows) :
        /\ Len(t.symbol) > 4
        /\ SubSeq(t.symbol, Len(t.symbol) - 3, Len(t.symbol)) = <<"U", "S", "D", "T">>
        /\ (fn.exchange = "mexc" => t.symbol[Len(t.symbol) - 4] = "_")}

\* C20: getTopPairs(n) throws when the endpoint is unreachable or answers
\* with a non-success status; otherwise what it returns has at most n
\* entries, all of them USDT-quoted rows of the answer, in descending order
\* of volume, and no USDT-quoted row left out has a higher volume than a
\* returned one.
InvC20_TopPairsByVolume ==
    GotTopPairs =>
        /\ (~fn.response.reachable \/ ~fn.response.ok) => fn.result = [thrown |-> TRUE]
        /\ ~fn.result.thrown =>
              LET out == fn.result.value
              IN  /\ Len(out) <= fn.limit
                  /\ \A k \in 1..Len(out) :
                        /\ [symbol |-> out[k].symbol, volume |-> out[k].volume24h] \in UsdtRows
                        /\ out[k].quoteAsset = <<"U", "S", "D", "T">>
                  /\ \A i, j \in 1..Len(out) : i < j => out[i].volume24h >= out[j].volume24h
                  /\ \A i, j \in 1..Len(out) : out[i].symbol = out[j].symbol => i = j
                  /\ \A t \in UsdtRows :
                        (\A k \in 1..Len(out) : out[k].symbol # t.symbol)
                            => /\ Len(out) = fn.limit
                               /\ \A k \in 1..Len(out) : t.volume <= out[k].volume24h

\* A call that had to choose: a USDT-quoted row was left out for its lower
\* volume, and a row with a higher volume was left out for not being
\* USDT-quoted.
WitC20_LowerVolumeLeftOut ==
    /\ GotTopPairs /\ ~fn.result.thrown
    /\ Len(fn.result.value) = fn.limit /\ fn.limit >= 1
    /\ \E t \in UsdtRows : \A k \in 1..Len(fn.result.value) :
          fn.result.value[k].symbol # t.symbol /\ t.volume < fn.result.value[k].volume24h
    /\ \E t \in Range(fn.response.data.rows) \ UsdtRows :
          t.volume > fn.result.value[1].volume24h

\* ================================================== streaming connections
\* A venue client holds a handle ws (0 = null, else the index of a socket
\* in sockets[venue]) and the handle pingInterval of its keepalive timer
\* (0 = null, else the index of the socket whose open handler started it).
\* intervals[venue] are the keepalive timers that are running, timers[venue]
\* the reconnect timeouts that are pending (named by the socket whose close
\* handler set them).  The handlers of a socket are closures over the
\* symbols and the callback connectWebSocket was called with.
\*
\* Socket states: "connecting" (created), "open" (open event delivered),
\* "aborting" (close() called before the connection was established: error
\* and close events will follow), "closing" (close() called on an open
\* socket: the close event will follow), "errored" (error event delivered,
\* the close event will follow), "closed" (close event delivered).
MaxSockets == 2

MaxAttempts == 3

Socket(state, symbols, callback, subscribed, afterStop) ==
    [state |-> state, symbols |-> symbols, callback |-> callback,
     subscribed |-> subscribed, afterStop |-> afterStop]

ledgerVars == <<config, openPositions, skippedOpportunities, stats, ev, cost, fn>>

cacheVars == <<binanceCache, mexcCache>>

\* ------------------------------------------------------ WebSocketMonitor
\* Date.now(), per venue: the number of monitor calls made for it so far.
Now(exchange) == hist.disconnects[exchange] + hist.reconnects[exchange] + 1

\* variant: the record is stored under every venue's key
recordDisconnectAllVenues(cur, exchange, reason, now) ==
    [e \in DOMAIN cur |->
        [exchange |-> exchange, disconnectTime |-> now, reason |-> reason]]

\* WebSocketMonitor.recordDisconnect: Map.set, an open record of the venue
\* is overwritten.
recordDisconnect(cur, exchange, reason, now) ==
    [cur EXCEPT ![exchange] =
        [exchange |-> exchange, disconnectTime |-> now, reason |-> reason]]

\* variant: a reconnect without an open record is archived too
recordReconnectAlwaysArchives(cur, arch, exchange, now) ==
    [currentDowntime |-> [cur EXCEPT ![exchange] = None],
     downtimes |-> Append(arch,
         [exchange |-> exchange,
          disconnectTime |-> IF cur[exchange] # None
                             THEN cur[exchange].disconnectTime ELSE now,
          reason |-> IF cur[exchange] # None THEN cur[exchange].reason ELSE "",
          reconnectTime |-> now,
          durationMs |-> IF cur[exchange] # None
                         THEN now - cur[exchange].disconnectTime ELSE 0])]

\* variant: the duration is the reconnect time itself
recordReconnectWrongDuration(cur, arch, exchange, now) ==
    IF cur[exchange] # None
    THEN [currentDowntime |-> [cur EXCEPT ![exchange] = None],
          downtimes |-> Append(arch,
              [exchange |-> exchange,
               disconnectTime |-> cur[exchange].disconnectTime,
               reason |-> cur[exchange].reason,
               reconnectTime |-> now,
               durationMs |-> now])]
    ELSE [currentDowntime |-> cur, downtimes |-> arch]

recordReconnectKeepsOpen(cur, arch, exchange, now) ==
    IF cur[exchange] # None
    THEN [currentDowntime |-> cur,
          downtimes |-> Append(arch,
              [exchange |-> exchange,
               disconnectTime |-> cur[exchange].disconnectTime,
               reason |-> cur[exchange].reason,
               reconnectTime |-> now,
               durationMs |-> now - cur[exchange].disconnectTime])]
    ELSE [currentDowntime |-> cur, downtimes |-> arch]

\* WebSocketMonitor.recordReconnect: completes the venue's open record,
\* archives it and deletes it from the map; nothing without an open record.
recordReconnect(cur, arch, exchange, now) ==
    IF cur[exchange] # None
    THEN [currentDowntime |-> [cur EXCEPT ![exchange] = None],
          downtimes |-> Append(arch,
              [exchange |-> exchange,
               disconnectTime |-> cur[exchange].disconnectTime,
               reason |-> cur[exchange].reason,
               reconnectTime |-> now,
               durationMs |-> now - cur[exchange].disconnectTime])]
    ELSE [currentDowntime |-> cur, downtimes |-> arch]

\* the call counters after a recordDisconnect / recordReconnect call
CountDisconnect(exchange) ==
    [hist EXCEPT !.disconnects[exchange] = @ + 1,
                 !.episodes[exchange] =
                     IF currentDowntime[exchange] = None THEN @ + 1 ELSE @]

CountReconnect(exchange) == [hist EXCEPT !.reconnects[exchange] = @ + 1]

\* ------------------------------------------------------------ the client
connectWebSocketUnguarded(exchange, w, socks, symbols, callback, stopped) ==
    [ws |-> Len(socks) + 1,
     sockets |-> Append(socks,
         Socket("connecting", symbols, callback,
                IF exchange = "binance" THEN symbols ELSE {}, stopped))]

\* connectWebSocket on a client with handle w and sockets socks: returns at
\* once when a handle is held; else creates a socket, registers the
\* handlers (closures over symbols and callback) and stores the handle.
\* Binance subscribes through the URL, MEXC by messages sent on open.
connectWebSocket(exchange, w, socks, symbols, callback, stopped) ==
    IF w # 0 THEN [ws |-> w, sockets |-> socks]
    ELSE [ws |-> Len(socks) + 1,
          sockets |-> Append(socks,
              Socket("connecting", symbols, callback,
                     IF exchange = "binance" THEN symbols ELSE {}, stopped))]

\* cleanup(): clears the timer whose handle is stored, drops both handles
cleanup(ping, running) ==
    [ws |-> 0, pingInterval |-> 0,
     intervals |-> IF ping # 0 THEN running \ {ping} ELSE running]

\* WebSocket.close(): starts the closing of a socket that is not closing yet
closeSocket(state) ==
    IF state = "connecting" THEN "aborting"
    ELSE IF state = "open" THEN "closing"
    ELSE state

\* disconnect(): with a handle, closes that socket and cleans up; without a
\* handle it does nothing.
disconnect(w, socks, ping, running) ==
    IF w # 0
    THEN [sockets |-> [socks EXCEPT ![w].state = closeSocket(@)]]
         @@ cleanup(ping, running)
    ELSE [ws |-> w, sockets |-> socks, pingInterval |-> ping, intervals |-> running]


\* ---------------------------------------------------------- socket events
\* room for one more socket of the venue, in runs with at most n sockets
\* per venue
Room(e, n) == Len(sockets[e]) < n

\* 'open' of socket i: the first handler (MEXC: sends the subscriptions
\* through the current handle if that socket is open) starts the keepalive
\* timer, the second reports the reconnect to the monitor.
SocketOpen(e, i) ==
    /\ i \in 1..Len(sockets[e])
    /\ sockets[e][i].state = "connecting"
    /\ LET opened == [sockets[e] EXCEPT ![i].state = "open"]
           target == ws[e]
           sent == IF e = "mexc" /\ target # 0 /\ opened[target].state = "open"
                   THEN [opened EXCEPT ![target].subscribed = @ \cup opened[i].symbols]
                   ELSE opened
           m == recordReconnect(currentDowntime, downtimes, e, Now(e))
       IN  /\ sockets' = [sockets EXCEPT ![e] = sent]
           /\ pingInterval' = [pingInterval EXCEPT ![e] = i]
           /\ intervals' = [intervals EXCEPT ![e] = @ \cup {i}]
           /\ currentDowntime' = m.currentDowntime
           /\ downtimes' = m.downtimes
           /\ hist' = CountReconnect(e)
    /\ lastCall' = None
    /\ UNCHANGED <<ws, timers, boot, ledgerVars, cacheVars, scriptVars>>

\* 'error' of socket i (the connection attempt failed, the connection broke,
\* or close() aborted the attempt): the handler reports a disconnect.
SocketError(e, i, n) ==
    /\ i \in 1..Len(sockets[e])
    /\ \/ sockets[e][i].state = "aborting"
       \/ sockets[e][i].state \in {"connecting", "open"} /\ Room(e, n)
    /\ sockets' = [sockets EXCEPT ![e][i].state = "errored"]
    /\ currentDowntime' = recordDisconnect(currentDowntime, e, "Error", Now(e))
    /\ hist' = CountDisconnect(e)
    /\ lastCall' = None
    /\ UNCHANGED <<ws, pingInterval, intervals, timers, downtimes, boot,
                   ledgerVars, cacheVars, scriptVars>>

\* variant: the close handler's cleanup empties the venue's price cache
SocketCloseClearsCache(e, i, n) ==
    /\ i \in 1..Len(sockets[e])
    /\ \/ sockets[e][i].state \in {"closing", "errored"}
       \/ sockets[e][i].state = "open" /\ Room(e, n)
    /\ LET c == cleanup(pingInterval[e], intervals[e])
       IN  /\ ws' = [ws EXCEPT ![e] = c.ws]
           /\ pingInterval' = [pingInterval EXCEPT ![e] = c.pingInterval]
           /\ intervals' = [intervals EXCEPT ![e] = c.intervals]
    /\ sockets' = [sockets EXCEPT ![e][i].state = "closed"]
    /\ currentDowntime' = recordDisconnect(currentDowntime, e, "Close", Now(e))
    /\ hist' = CountDisconnect(e)
    /\ timers' = [timers EXCEPT ![e] = @ \cup {i}]
    /\ lastCall' = None
    /\ binanceCache' = IF e = "binance" THEN EmptyMap ELSE binanceCache
    /\ mexcCache' = IF e = "mexc" THEN EmptyMap ELSE mexcCache
    /\ UNCHANGED <<downtimes, boot, ledgerVars, scriptVars>>

SocketCloseNoRetryAfterError(e, i, n) ==
    /\ i \in 1..Len(sockets[e])
    /\ \/ sockets[e][i].state \in {"closing", "errored"}
       \/ sockets[e][i].state = "open" /\ Room(e, n)
    /\ LET c == cleanup(pingInterval[e], intervals[e])
       IN  /\ ws' = [ws EXCEPT ![e] = c.ws]
           /\ pingInterval' = [pingInterval EXCEPT ![e] = c.pingInterval]
           /\ intervals' = [intervals EXCEPT ![e] = c.intervals]
    /\ sockets' = [sockets EXCEPT ![e][i].state = "closed"]
    /\ currentDowntime' = recordDisconnect(currentDowntime, e, "Close", Now(e))
    /\ hist' = CountDisconnect(e)
    /\ timers' = [timers EXCEPT ![e] =
                     IF sockets[e][i].state = "errored" THEN @ ELSE @ \cup {i}]
    /\ lastCall' = None
    /\ UNCHANGED <<downtimes, boot, ledgerVars, cacheVars, scriptVars>>

\* 'close' of socket i (after an error, after close(), or because the
\* connection ended): the handler reports a disconnect, cleans the client
\* up and sets the reconnect timeout.
SocketClose(e, i, n) ==
    /\ i \in 1..Len(sockets[e])
    /\ \/ sockets[e][i].state \in {"closing", "errored"}
       \/ sockets[e][i].state = "open" /\ Room(e, n)
    /\ LET c == cleanup(pingInterval[e], intervals[e])
       IN  /\ ws' = [ws EXCEPT ![e] = c.ws]
           /\ pingInterval' = [pingInterval EXCEPT ![e] = c.pingInterval]
           /\ intervals' = [intervals EXCEPT ![e] = c.intervals]
    /\ sockets' = [sockets EXCEPT ![e][i].state = "closed"]
    /\ currentDowntime' = recordDisconnect(currentDowntime, e, "Close", Now(e))
    /\ hist' = CountDisconnect(e)
    /\ timers' = [timers EXCEPT ![e] = @ \cup {i}]
    /\ lastCall' = None
    /\ UNCHANGED <<downtimes, boot, ledgerVars, cacheVars, scriptVars>>

\* The reconnect timeout set by the close handler of socket i fires:
\* connectWebSocket(symbols, onPriceUpdate) with the closure's arguments.
TimerFires(e, i, n) ==
    /\ i \in timers[e]
    /\ ws[e] # 0 \/ Room(e, n)
    /\ LET c == connectWebSocket(e, ws[e], sockets[e], sockets[e][i].symbols,
                                 sockets[e][i].callback, boot.stopped)
       IN  /\ ws' = [ws EXCEPT ![e] = c.ws]
           /\ sockets' = [sockets EXCEPT ![e] = c.sockets]
    /\ timers' = [timers EXCEPT ![e] = @ \ {i}]
    /\ lastCall' = None
    /\ UNCHANGED <<pingInterval, intervals, currentDowntime, downtimes, hist,
                   boot, ledgerVars, cacheVars, scriptVars>>

\* ------------------------------------------------------- start() / stop()
\* start() runs checkExchangesHealth, fetchTopPairs and then, without a
\* further suspension, tradeExecutor.start(), startMinuteSummary() and
\* startWebSocketMonitoring(); a throw ends it (pc = "failed").
checkExchangesHealthEitherOk(binanceOk, mexcOk) ==
    /\ boot.pc = "new"
    /\ boot' = [boot EXCEPT
                  !.health = [binance |-> binanceOk, mexc |-> mexcOk],
                  !.pc = IF binanceOk \/ mexcOk THEN "healthy" ELSE "failed"]
    /\ lastCall' = None
    /\ UNCHANGED <<ws, sockets, pingInterval, intervals, timers,
                   currentDowntime, downtimes, hist, ledgerVars, cacheVars, scriptVars>>

\* checkExchangesHealth: both health checks are awaited, then the first
\* venue that is not ok makes it throw.
checkExchangesHealth(binanceOk, mexcOk) ==
    /\ boot.pc = "new"
    /\ boot' = [boot EXCEPT
                  !.health = [binance |-> binanceOk, mexc |-> mexcOk],
                  !.pc = IF ~binanceOk THEN "failed"
                         ELSE IF ~mexcOk THEN "failed"
                         ELSE "healthy"]
    /\ lastCall' = None
    /\ UNCHANGED <<ws, sockets, pingInterval, intervals, timers,
                   currentDowntime, downtimes, hist, ledgerVars, cacheVars, scriptVars>>

\* the ticker answers instrument discovery may get at startup
StartResponses(exchange) ==
    { Response(FALSE, FALSE, FALSE, None),
      Response(TRUE, TRUE, TRUE, Rows(FullListing(exchange))) }

\* the awaited fetchTopPairs of start()
StartDiscovery(binanceResponse, mexcResponse, topPairsCount) ==
    /\ boot.pc = "healthy"
    /\ LET result == fetchTopPairs(binanceResponse, mexcResponse, topPairsCount, {})
       IN  boot' = [boot EXCEPT
                      !.fetchCalled = TRUE,
                      !.commonSymbols = IF result.thrown THEN <<>> ELSE result.value,
                      !.pc = IF result.thrown THEN "failed" ELSE "fetched"]
    /\ lastCall' = None
    /\ UNCHANGED <<ws, sockets, pingInterval, intervals, timers,
                   currentDowntime, downtimes, hist, ledgerVars, cacheVars, scriptVars>>

\* the instrument set startWebSocketMonitoring subscribes a venue to
SymbolsFor(exchange) ==
    IF exchange = "binance"
    THEN {boot.commonSymbols[k] : k \in 1..Len(boot.commonSymbols)}
    ELSE {toMexcFormat(boot.commonSymbols[k]) : k \in 1..Len(boot.commonSymbols)}

\* the rest of start(): tradeExecutor.start(), startMinuteSummary() and,
\* if useWebSocket, startWebSocketMonitoring() (connects both clients with
\* the detector's onPriceUpdate as callback).
StartMonitoring ==
    /\ boot.pc = "fetched"
    /\ boot' = [boot EXCEPT !.tradeExecutorStarted = TRUE,
                            !.minuteSummary = TRUE, !.pc = "running"]
    /\ IF boot.useWebSocket
       THEN /\ ws' = [e \in Exchanges |->
                        connectWebSocket(e, ws[e], sockets[e], SymbolsFor(e),
                                         "onPriceUpdate", boot.stopped).ws]
            /\ sockets' = [e \in Exchanges |->
                        connectWebSocket(e, ws[e], sockets[e], SymbolsFor(e),
                                         "onPriceUpdate", boot.stopped).sockets]
       ELSE UNCHANGED <<ws, sockets>>
    /\ lastCall' = None
    /\ UNCHANGED <<pingInterval, intervals, timers, currentDowntime, downtimes,
                   hist, ledgerVars, cacheVars, scriptVars>>

\* stop(), called once by the signal handlers registered after start():
\* disconnect() on both clients.  The rest of stop() (ledger stop,
\* statistics, report) touches none of the connection state.
Stop ==
    /\ boot.pc = "running"
    /\ ~boot.stopped
    /\ boot' = [boot EXCEPT !.stopped = TRUE]
    /\ ws' = [e \in Exchanges |->
                disconnect(ws[e], sockets[e], pingInterval[e], intervals[e]).ws]
    /\ sockets' = [e \in Exchanges |->
                disconnect(ws[e], sockets[e], pingInterval[e], intervals[e]).sockets]
    /\ pingInterval' = [e \in Exchanges |->
                disconnect(ws[e], sockets[e], pingInterval[e], intervals[e]).pingInterval]
    /\ intervals' = [e \in Exchanges |->
                disconnect(ws[e], sockets[e], pingInterval[e], intervals[e]).intervals]
    /\ lastCall' = None
    /\ UNCHANGED <<timers, currentDowntime, downtimes, hist, ledgerVars, cacheVars, scriptVars>>

InitConn ==
    /\ config = Cfg(10, 1, 1, 0, 1, TRUE, TRUE, 2)
    /\ binanceCache = EmptyMap
    /\ mexcCache = EmptyMap
    /\ openPositions = <<>>
    /\ skippedOpportunities = <<>>
    /\ stats = [totalComparisons |-> 0, opportunitiesFound |-> 0]
    /\ ev = Event("init", None, None, None, <<>>, <<>>)
    /\ cost = None
    /\ fn = None
    /\ InitClients
    /\ ScriptNotRun
    /\ boot \in {BootNew(u) : u \in BOOLEAN}

\* what the sockets do: open, fail, close; and the reconnect timeouts
SocketEvents(n) ==
    \E e \in Exchanges : \E i \in 1..n :
        \/ SocketOpen(e, i)
        \/ SocketError(e, i, n)
        \/ SocketClose(e, i, n)
        \/ TimerFires(e, i, n)

StartSteps ==
    \/ \E b \in BOOLEAN : \E m \in BOOLEAN : checkExchangesHealth(b, m)
    \/ \E rb \in StartResponses("binance") : \E rm \in StartResponses("mexc") :
          \E n \in {1, MaxTickers} : StartDiscovery(rb, rm, n)
    \/ StartMonitoring

NextConn == StartSteps \/ SocketEvents(MaxSockets) \/ Stop

SpecConn == InitConn /\ [][NextConn]_vars

\* The program without a shutdown; a timeout that was set does fire
\* (setTimeout).
NextLive == StartSteps \/ SocketEvents(MaxAttempts)

SpecConnLive ==
    /\ InitConn
    /\ [][NextLive]_vars
    /\ \A e \in Exchanges : WF_vars(\E i \in 1..MaxAttempts : TimerFires(e, i, MaxAttempts))

\* ------------------------------------------------- the client on its own
\* One venue client used through its public methods (connectWebSocket,
\* disconnect, getPrice) while its sockets open, fail, close and deliver
\* messages.  lastCall records the last call or message: what it was, the
\* client's state before it, and for a message the callback invocation.
ClientState(e) ==
    [ws |-> ws[e], sockets |-> sockets[e], pingInterval |-> pingInterval[e],
     intervals |-> intervals[e], timers |-> timers[e],
     cache |-> IF e = "binance" THEN binanceCache ELSE mexcCache]

\* the arguments connectWebSocket is called with
ConnectArgs(e) ==
    IF e = "binance"
    THEN { [symbols |-> commonSymbols, callback |-> "onPriceUpdate"],
           [symbols |-> {Sym(<<"A">>)}, callback |-> "otherCallback"] }
    ELSE { [symbols |-> mexcSymbols, callback |-> "onPriceUpdate"],
           [symbols |-> {MexcSym(<<"A">>)}, callback |-> "otherCallback"] }

\* only one of the two clients is used in a run
OthersUnused(e) == \A o \in Exchanges \ {e} : sockets[o] = <<>>

\* a call of connectWebSocket(symbols, callback) on the client of venue e
ConnectCall(e, args, n) ==
    /\ OthersUnused(e)
    /\ ws[e] # 0 \/ Room(e, n)
    /\ LET c == connectWebSocket(e, ws[e], sockets[e], args.symbols,
                                 args.callback, boot.stopped)
       IN  /\ ws' = [ws EXCEPT ![e] = c.ws]
           /\ sockets' = [sockets EXCEPT ![e] = c.sockets]
    /\ lastCall' = [op |-> "connectWebSocket", exchange |-> e, args |-> args,
                    pre |-> ClientState(e)]
    /\ UNCHANGED <<pingInterval, intervals, timers, currentDowntime, downtimes,
                   hist, boot, ledgerVars, cacheVars, scriptVars>>

\* a call of disconnect() on the client of venue e
DisconnectCall(e) ==
    /\ OthersUnused(e)
    /\ LET d == disconnect(ws[e], sockets[e], pingInterval[e], intervals[e])
       IN  /\ ws' = [ws EXCEPT ![e] = d.ws]
           /\ sockets' = [sockets EXCEPT ![e] = d.sockets]
           /\ pingInterval' = [pingInterval EXCEPT ![e] = d.pingInterval]
           /\ intervals' = [intervals EXCEPT ![e] = d.intervals]
    /\ lastCall' = [op |-> "disconnect", exchange |-> e, pre |-> ClientState(e)]
    /\ UNCHANGED <<timers, currentDowntime, downtimes, hist, boot,
                   ledgerVars, cacheVars, scriptVars>>

\* ---------------------------------------------------------------- messages
\* A streaming message is text that is no JSON ("garbage"), JSON that is no
\* tick ("other": no data field on Binance, another channel on MEXC), or a
\* tick: a payload with a symbol and the fields last, bid and ask, each a
\* number Num(x) or missing (None).
Num(x) == [num |-> x]

NaN == [nan |-> TRUE]

\* parseFloat of a payload field
parseFloat(field) == IF field = None THEN NaN ELSE field

Garbage == [kind |-> "garbage"]

OtherMessage == [kind |-> "other"]

TickMessage(symbol, lastPrice, bid, ask) ==
    [kind |-> "tick", symbol |-> symbol, last |-> lastPrice, bid |-> bid, ask |-> ask]

\* The messages a venue sends: the bookTicker stream of Binance carries no
\* last price (ticker.c); one tick lacks its bid.
Messages(e) ==
    LET a == IF e = "binance" THEN Sym(<<"A">>) ELSE MexcSym(<<"A">>)
        b == IF e = "binance" THEN Sym(<<"B">>) ELSE MexcSym(<<"B">>)
        lastOf(x) == IF e = "binance" THEN None ELSE Num(x)
    IN  { Garbage, OtherMessage,
          TickMessage(a, lastOf(9), Num(9), Num(10)),
          TickMessage(a, lastOf(12), Num(12), Num(13)),
          TickMessage(a, lastOf(9), None, Num(10)),
          TickMessage(b, lastOf(9), Num(9), Num(10)) }

\* The TickerPrice the handler builds from a tick payload.
priceOfMessage(e, m) ==
    IF e = "binance"
    THEN TickerPrice(m.symbol, parseFloat(IF m.last # None THEN m.last ELSE m.bid),
                     parseFloat(m.bid), parseFloat(m.ask), "binance")
    ELSE TickerPrice(m.symbol, parseFloat(m.last), parseFloat(m.bid),
                     parseFloat(m.ask), "mexc")

messageHandlerDropsCache(e, cache, callback, m) ==
    IF m.kind = "garbage" THEN [cache |-> EmptyMap, called |-> None]
    ELSE IF m.kind = "other" THEN [cache |-> cache, called |-> None]
    ELSE LET price == priceOfMessage(e, m)
             written == CacheSet(cache, price.symbol, price)
         IN  [cache |-> written,
              called |-> [callback |-> callback, price |-> price,
                          cached |-> getPrice(written, price.symbol)]]

\* The 'message' handler: JSON.parse throws on garbage and the catch only
\* logs; a message that is no tick is skipped; for a tick the price is
\* built, written to the cache, and then the callback is called with it.
messageHandler(e, cache, callback, m) ==
    IF m.kind = "garbage" THEN [cache |-> cache, called |-> None]
    ELSE IF m.kind = "other" THEN [cache |-> cache, called |-> None]
    ELSE LET price == priceOfMessage(e, m)
             written == CacheSet(cache, price.symbol, price)
         IN  [cache |-> written,
              called |-> [callback |-> callback, price |-> price,
                          cached |-> getPrice(written, price.symbol)]]

\* message m arrives on the open socket i of venue e
OnMessage(e, i, m) ==
    /\ i \in 1..Len(sockets[e])
    /\ sockets[e][i].state = "open"
    /\ LET cache == IF e = "binance" THEN binanceCache ELSE mexcCache
           h == messageHandler(e, cache, sockets[e][i].callback, m)
       IN  /\ binanceCache' = IF e = "binance" THEN h.cache ELSE binanceCache
           /\ mexcCache' = IF e = "mexc" THEN h.cache ELSE mexcCache
           /\ lastCall' = [op |-> "message", exchange |-> e, socket |-> i,
                           msg |-> m, called |-> h.called, pre |-> ClientState(e)]
    /\ hist' = [hist EXCEPT
                  !.ticks[e] = IF m.kind = "tick"
                               THEN [s \in DOMAIN @ \cup {m.symbol} |->
                                        IF s = m.symbol THEN m ELSE @[s]]
                               ELSE @,
                  !.dropped[e] = IF m.kind = "garbage" THEN @ \cup {i} ELSE @]
    /\ UNCHANGED <<ws, sockets, pingInterval, intervals, timers,
                   currentDowntime, downtimes, boot, ledgerVars, scriptVars>>

InitClient == InitConn /\ boot = BootNew(TRUE)

NextClient ==
    \/ \E e \in Exchanges : \E args \in ConnectArgs(e) :
          ConnectCall(e, args, MaxSockets)
    \/ \E e \in Exchanges : DisconnectCall(e)
    \/ SocketEvents(MaxSockets)

SpecClient == InitClient /\ [][NextClient]_vars

\* The client receiving messages: connected once, its sockets open, close
\* and are replaced by the reconnect timeouts.
NextMsg ==
    \/ \E e \in Exchanges : \E args \in ConnectArgs(e) :
          sockets[e] = <<>> /\ ConnectCall(e, args, MaxSockets)
    \/ \E e \in Exchanges : \E i \in 1..MaxSockets :
          \/ SocketOpen(e, i)
          \/ SocketClose(e, i, MaxSockets)
          \/ TimerFires(e, i, MaxSockets)
    \/ \E e \in Exchanges : \E i \in 1..MaxSockets : \E m \in Messages(e) :
          OnMessage(e, i, m)

SpecMsg == InitClient /\ [][NextMsg]_vars

\* ================================================ connection properties
Archived(e) == Cardinality({k \in 1..Len(downtimes) : downtimes[k].exchange = e})

OpenRecords(e) == IF currentDowntime[e] = None THEN 0 ELSE 1

\* C12 as stated: with every downtime of a venue closed, its archive has as
\* many entries as recordDisconnect was called for it.
CexC12_ArchiveCountsDisconnectCalls ==
    \A e \in Exchanges :
        currentDowntime[e] = None => Archived(e) = hist.disconnects[e]

\* C12 amended: the archived entries of a venue, plus its open record if
\* there is one, are as many as the recordDisconnect calls that found no
\* open record; a call that finds one overwrites it and adds no entry, so
\* the archive never has more entries than there were calls.
InvC12_ArchiveCountsDowntimes ==
    \A e \in Exchanges :
        /\ Archived(e) + OpenRecords(e) = hist.episodes[e]
        /\ Archived(e) <= hist.disconnects[e]

\* A connection attempt failed (error, then close: two calls) and the next
\* one succeeded: one archived entry for two recordDisconnect calls.
WitC12_TwoCallsOneEntry ==
    \E e \in Exchanges :
        /\ hist.disconnects[e] = 2
        /\ Archived(e) = 1
        /\ currentDowntime[e] = None

ClosedSocket(e, i) == i <= Len(sockets[e]) /\ sockets[e][i].state = "closed"

\* the socket created after socket i is for the same instruments and callback
Reconnected(e, i) ==
    /\ Len(sockets[e]) > i
    /\ sockets[e][i + 1].symbols = sockets[e][i].symbols
    /\ sockets[e][i + 1].callback = sockets[e][i].callback
    /\ e = "binance" => sockets[e][i + 1].subscribed = sockets[e][i].symbols

\* C13: whenever a socket of a venue has closed, a new socket for the same
\* instrument set and the same callback is eventually created, whether the
\* closed socket had been open or was itself a failed reconnect attempt;
\* and a socket that is open is subscribed to its instrument set.
LiveC13_CloseLeadsToReconnect ==
    /\ \A e \in Exchanges : \A i \in 1..MaxAttempts :
          [](ClosedSocket(e, i) => <>Reconnected(e, i))
    /\ [](\A e \in Exchanges : \A i \in 1..Len(sockets[e]) :
            sockets[e][i].state = "open"
                => sockets[e][i].symbols \subseteq sockets[e][i].subscribed)

\* The first connection closed, the reconnect attempt failed, and a third
\* socket for the same instruments is open.
WitC13_ReconnectAfterFailedAttempt ==
    \E e \in Exchanges :
        /\ Len(sockets[e]) = 3
        /\ ClosedSocket(e, 1) /\ ClosedSocket(e, 2)
        /\ sockets[e][3].state = "open"
        /\ hist.reconnects[e] = 2
        /\ Reconnected(e, 1) /\ Reconnected(e, 2)
        /\ sockets[e][3].symbols # {}

\* C14: once stop() has run, no reconnect timeout is pending and no socket
\* has been created since.
CexC14_NothingReconnectsAfterStop ==
    boot.stopped =>
        \A e \in Exchanges :
            /\ timers[e] = {}
            /\ \A i \in 1..Len(sockets[e]) : ~sockets[e][i].afterStop

ConnectCalled == lastCall # None /\ lastCall.op = "connectWebSocket"

\* C15: connectWebSocket on a client that holds a handle leaves the client
\* as it was: no socket is added, the sockets keep their instrument sets
\* and callbacks, handle, timers and cache are unchanged.
InvC15_ConnectWhileConnectedIsNoOp ==
    (ConnectCalled /\ lastCall.pre.ws # 0)
        => /\ ClientState(lastCall.exchange) = lastCall.pre
           /\ Len(sockets[lastCall.exchange]) = Len(lastCall.pre.sockets)
           /\ ws[lastCall.exchange] = lastCall.pre.ws

\* connectWebSocket was called with other arguments than the held
\* connection was made with.
WitC15_SecondConnectOtherArguments ==
    /\ ConnectCalled /\ lastCall.pre.ws # 0
    /\ lastCall.args.symbols # lastCall.pre.sockets[lastCall.pre.ws].symbols
    /\ lastCall.args.callback # lastCall.pre.sockets[lastCall.pre.ws].callback

DisconnectCalled == lastCall # None /\ lastCall.op = "disconnect"

\* C16: after disconnect() the client has no handle and no running
\* keepalive timer, and the socket it held is closed or closing; without a
\* handle the call changes nothing.
CexC16_DisconnectLeavesNothingRunning ==
    DisconnectCalled =>
        LET e == lastCall.exchange
        IN  /\ ws[e] = 0
            /\ pingInterval[e] = 0
            /\ intervals[e] = {}
            /\ lastCall.pre.ws # 0 =>
                  sockets[e][lastCall.pre.ws].state \notin {"connecting", "open"}
            /\ lastCall.pre.ws = 0 => ClientState(e) = lastCall.pre

HealthFailed ==
    boot.health # None /\ (~boot.health.binance \/ ~boot.health.mexc)

\* C18: when a venue's startup health check failed, start() has failed and
\* neither discovery nor the ledger nor the summary timer nor a connection
\* was started; and a socket exists only if both health checks succeeded.
InvC18_HealthFailureStopsStart ==
    /\ HealthFailed =>
          /\ boot.pc = "failed"
          /\ ~boot.fetchCalled /\ boot.commonSymbols = <<>>
          /\ ~boot.tradeExecutorStarted
          /\ ~boot.minuteSummary
          /\ \A e \in Exchanges : sockets[e] = <<>> /\ ws[e] = 0
    /\ (\E e \in Exchanges : sockets[e] # <<>>) =>
          boot.health = [binance |-> TRUE, mexc |-> TRUE]

\* Binance answered, MEXC did not.
WitC18_OneVenueUnhealthy ==
    /\ HealthFailed
    /\ boot.health.binance /\ ~boot.health.mexc
    /\ boot.pc = "failed"

\* --------------------------------------------------- message properties
Cache(e) == IF e = "binance" THEN binanceCache ELSE mexcCache

\* every symbol a venue's stream can name, and one it never names
StreamSymbols(e) ==
    {m.symbol : m \in {t \in Messages(e) : t.kind = "tick"}}
        \cup {IF e = "binance" THEN Sym(<<"C">>) ELSE MexcSym(<<"C">>)}

FieldOrNaN(field) == IF field = [none |-> TRUE] THEN [nan |-> TRUE] ELSE field

\* the values a tick payload carries, as the venue's handler reads them
ValuesOfTick(e, m) ==
    [symbol |-> m.symbol,
     price |-> IF e = "binance" /\ m.last = [none |-> TRUE]
               THEN FieldOrNaN(m.bid) ELSE FieldOrNaN(m.last),
     bid |-> FieldOrNaN(m.bid), ask |-> FieldOrNaN(m.ask), exchange |-> e]

MessageArrived == lastCall # None /\ lastCall.op = "message"

\* C17: getPrice(symbol) is absent exactly when no tick for the symbol has
\* arrived on the venue; otherwise it is the record made of the values of
\* the latest tick for the symbol and of nothing else; and when the
\* callback runs for a tick the cache already holds that tick's record.
InvC17_CacheHoldsLatestTick ==
    /\ \A e \in Exchanges : \A s \in StreamSymbols(e) :
          /\ getPrice(Cache(e), s) = None <=> s \notin DOMAIN hist.ticks[e]
          /\ s \in DOMAIN hist.ticks[e]
                => getPrice(Cache(e), s) = ValuesOfTick(e, hist.ticks[e][s])
    /\ (MessageArrived /\ lastCall.msg.kind = "tick") =>
          /\ lastCall.called # None
          /\ lastCall.called.price = ValuesOfTick(lastCall.exchange, lastCall.msg)
          /\ lastCall.called.cached = lastCall.called.price
          /\ lastCall.called.callback
                = sockets[lastCall.exchange][lastCall.socket].callback

\* A tick replaced the cached record of its symbol by different values,
\* another symbol of the venue is cached too and a third is absent.
WitC17_RecordReplaced ==
    /\ MessageArrived /\ lastCall.msg.kind = "tick"
    /\ LET e == lastCall.exchange
           s == lastCall.msg.symbol
       IN  /\ s \in DOMAIN lastCall.pre.cache
           /\ lastCall.pre.cache[s] # Cache(e)[s]
           /\ Cardinality(DOMAIN Cache(e)) = 2
           /\ \E x \in StreamSymbols(e) : getPrice(Cache(e), x) = None

\* C19: a message that is no JSON changes neither the cache nor the client
\* and calls no callback, its socket stays open, and a tick that arrives on
\* that socket afterwards is cached and passed to the callback.
InvC19_UnparsableMessageDropped ==
    /\ (MessageArrived /\ lastCall.msg.kind = "garbage") =>
          /\ Cache(lastCall.exchange) = lastCall.pre.cache
          /\ lastCall.called = None
          /\ ClientState(lastCall.exchange) = lastCall.pre
          /\ sockets[lastCall.exchange][lastCall.socket].state = "open"
          /\ ws[lastCall.exchange] = lastCall.pre.ws
    /\ ( /\ MessageArrived /\ lastCall.msg.kind = "tick"
         /\ lastCall.socket \in hist.dropped[lastCall.exchange] ) =>
          /\ lastCall.called # None
          /\ getPrice(Cache(lastCall.exchange), lastCall.msg.symbol)
                = ValuesOfTick(lastCall.exchange, lastCall.msg)

\* A tick was processed on a socket that had dropped a message before,
\* with a price already cached when the message was dropped.
WitC19_TickAfterDroppedMessage ==
    /\ MessageArrived /\ lastCall.msg.kind = "tick"
    /\ lastCall.socket \in hist.dropped[lastCall.exchange]
    /\ lastCall.called # None
    /\ lastCall.pre.cache # <<>>
    /\ sockets[lastCall.exchange][lastCall.socket].state = "open"

\* ----------------------------------------- decision engine over a held ledger
\* The ledger is a collaborator of the engine: getOpenPositions() returns
\* what it holds, which need not have been opened by this run of the
\* engine.  Here the engine starts against a ledger that already holds two
\* pairings, with no costs configured and a notify threshold of 10 %, so
\* that profits land exactly on the threshold and on each other; the
\* minimum spread is 10 % or none at all.
SlotConfigs ==
    { Cfg(10, 10, 0, 0, 0, TRUE, TRUE, 2),
      Cfg(0, 10, 0, 0, 0, TRUE, TRUE, 2) }

HeldPair(id, symbol, longExchange, longEntry, shortExchange, shortEntry) ==
    [id |-> id, symbol |-> symbol,
     longPosition |-> [exchange |-> longExchange, entryPrice |-> longEntry],
     shortPosition |-> [exchange |-> shortExchange, entryPrice |-> shortEntry]]

\* A bought on MEXC at 10 and sold on Binance at 12; C bought on Binance at
\* 8 and sold on MEXC at 11; in either order.
HeldLedgers ==
    { << HeldPair(1, <<"A">> \o USDT, "mexc", 10, "binance", 12),
         HeldPair(2, <<"C">> \o USDT, "binance", 8, "mexc", 11) >>,
      << HeldPair(1, <<"C">> \o USDT, "binance", 8, "mexc", 11),
         HeldPair(2, <<"A">> \o USDT, "mexc", 10, "binance", 12) >> }

\* A is quoted high on Binance and a little lower or as high on MEXC (its
\* pairing stands at 10 % or 15 %); C stands at 12.5 %; B is cheap on
\* Binance and 10 % or 20 % dearer on MEXC.
SlotFeed(exchange, symbol) ==
    LET c == toCommonFormat(symbol)
    IN  IF c = <<"A">> \o USDT
        THEN IF exchange = "binance" THEN {High} ELSE {Quote(11, 12), High}
        ELSE IF c = <<"B">> \o USDT
        THEN IF exchange = "binance" THEN {Low} ELSE {Quote(11, 12), High}
        ELSE IF exchange = "binance" THEN {Low} ELSE {Quote(11, 12)}

InitSlots ==
    /\ config \in SlotConfigs
    /\ binanceCache = EmptyMap
    /\ mexcCache = EmptyMap
    /\ openPositions \in HeldLedgers
    /\ skippedOpportunities = <<>>
    /\ stats = [totalComparisons |-> 0, opportunitiesFound |-> 0]
    /\ ev = Event("init", None, None, None, <<>>, openPositions)
    /\ cost = None
    /\ InitConnVars
    /\ ScriptNotRun
    /\ fn = None

NextSlots ==
    \/ \E s \in commonSymbols : \E q \in SlotFeed("binance", s) : BinanceTick(s, q)
    \/ \E s \in mexcSymbols : \E q \in SlotFeed("mexc", s) : MexcTick(s, q)
    \/ \E k \in 1..Len(openPositions) : LedgerClose(k)

SpecSlots == InitSlots /\ [][NextSlots]_vars

\* ------------------------------------------------- replacement properties
\* the pass considered pairing k a candidate: priced, at or above the
\* notify threshold, and exceeded by the opportunity
Qualifies(k) == NotBelowNotify(k) /\ Exceeded(k)

ClosedByStep(k) ==
    \E c \in 1..Len(ev.calls) :
        ev.calls[c].op = "close" /\ ev.calls[c].pairId = ev.preOpen[k].id

\* C21: a pairing closed by a replacement is the first pairing, in the
\* ledger's order, that is at or above the notify threshold and exceeded by
\* the opportunity; one opportunity makes at most one close and one open,
\* and every later pairing stays open whatever its profit.
InvC21_FirstQualifyingIsTheOneClosed ==
    Handled =>
        /\ CountOp(ev.calls, "close") <= 1
        /\ CountOp(ev.calls, "open") <= 1
        /\ \A k \in 1..Len(ev.preOpen) :
              ClosedByStep(k) =>
                 /\ SlotsFull /\ config.closeOnNewOpportunity
                 /\ Qualifies(k)
                 /\ \A j \in Before(k) : ~Qualifies(j)
                 /\ ReplacedPairing(k)
                 /\ \A j \in 1..Len(ev.preOpen) :
                       j # k => \E i \in 1..Len(openPositions) :
                                   openPositions[i] = ev.preOpen[j]

\* The first pairing (at 15 %) was replaced although the second one
\* qualified too and had the lower profit (12.5 %).
WitC21_LaterLowerProfitKept ==
    /\ FullAndNew /\ Len(ev.preOpen) = 2
    /\ ClosedByStep(1)
    /\ Qualifies(2)
    /\ ~PctBelow(PnlOf(1), 15, config.pctDen)
    /\ PctBelow(PnlOf(2), 13, config.pctDen)
    /\ \E i \in 1..Len(openPositions) : openPositions[i] = ev.preOpen[2]

\* the pass got as far as pairing k: every pairing before it was unpriced,
\* or at or above the threshold and not exceeded
Reaches(k) ==
    \A j \in Before(k) : ~HasPnl(j) \/ (NotBelowNotify(j) /\ ~Exceeded(j))

\* C22: with slots full and replacement enabled, when the pass reaches a
\* pairing below the notify threshold the opportunity is rejected with
\* exactly one POSITION_NOT_PROFITABLE skip carrying that pairing's profit,
\* no ledger open or close is made and later pairings are left alone.
InvC22_BelowThresholdRejects ==
    \A k \in 1..Len(ev.preOpen) :
        ( /\ FullAndNew /\ config.closeOnNewOpportunity
          /\ BelowNotify(k) /\ Reaches(k) )
        => /\ OneSkip("POSITION_NOT_PROFITABLE")
           /\ ev.calls[1].currentPositionProfit = PnlOf(k)
           /\ NoLedgerCall
           /\ openPositions = ev.preOpen
           /\ skippedOpportunities[Len(skippedOpportunities)].reason
                 = "POSITION_NOT_PROFITABLE"
           /\ skippedOpportunities[Len(skippedOpportunities)].currentPositionProfit
                 = PnlOf(k)

\* The pass passed over the first pairing and was stopped by the second,
\* whose profit differs from the first one's.
WitC22_SecondPairingBelow ==
    /\ FullAndNew /\ config.closeOnNewOpportunity
    /\ Len(ev.preOpen) = 2
    /\ NotBelowNotify(1) /\ ~Exceeded(1)
    /\ BelowNotify(2)
    /\ OneSkip("POSITION_NOT_PROFITABLE")
    /\ PnlOf(1) # PnlOf(2)

\* C23: with slots full, every open pairing at or above the notify
\* threshold and none exceeded by the opportunity, exactly one
\* NO_FREE_SLOTS skip is recorded and no ledger open or close is made.
InvC23_NoneExceededGivesNoFreeSlots ==
    ( /\ FullAndNew
      /\ \A k \in 1..Len(ev.preOpen) : NotBelowNotify(k) /\ ~Exceeded(k) )
    => /\ OneSkip("NO_FREE_SLOTS")
       /\ NoLedgerCall
       /\ openPositions = ev.preOpen
       /\ skippedOpportunities[Len(skippedOpportunities)].reason = "NO_FREE_SLOTS"

\* Two pairings at or above the threshold, neither exceeded, replacement
\* enabled.
WitC23_TwoPairingsNotExceeded ==
    /\ FullAndNew /\ config.closeOnNewOpportunity
    /\ Len(ev.preOpen) = 2
    /\ \A k \in 1..Len(ev.preOpen) : NotBelowNotify(k) /\ ~Exceeded(k)
    /\ OneSkip("NO_FREE_SLOTS")

\* a venue's cache has no entry for the instrument of pairing k
Unpriced(k) ==
    \/ ev.preOpen[k].symbol \notin DOMAIN binanceCache
    \/ \A s \in DOMAIN mexcCache : toCommonFormat(s) # ev.preOpen[k].symbol

StillOpen(k) == \E i \in 1..Len(openPositions) : openPositions[i] = ev.preOpen[k]

\* every pairing before k was unpriced or passed over
PassedOverBefore(k) ==
    \A j \in Before(k) : Unpriced(j) \/ (NotBelowNotify(j) /\ ~Exceeded(j))

\* C24: in the replacement pass a pairing without a cached price on either
\* venue is never closed and does not end the pass; the outcome is the one
\* the priced pairings alone give: the first of them that is below the
\* threshold rejects the opportunity, the first that qualifies is replaced,
\* and if there is neither, NO_FREE_SLOTS is recorded.
InvC24_UnpricedPairingPassedOver ==
    (FullAndNew /\ config.closeOnNewOpportunity) =>
        /\ \A k \in 1..Len(ev.preOpen) :
              /\ Unpriced(k) <=> ~HasPnl(k)
              /\ Unpriced(k) => (~ClosedByStep(k) /\ StillOpen(k))
              /\ (~Unpriced(k) /\ PassedOverBefore(k) /\ BelowNotify(k))
                    => (OneSkip("POSITION_NOT_PROFITABLE")
                        /\ ev.calls[1].currentPositionProfit = PnlOf(k))
              /\ (~Unpriced(k) /\ PassedOverBefore(k) /\ Qualifies(k))
                    => ReplacedPairing(k)
        /\ (\A k \in 1..Len(ev.preOpen) :
               Unpriced(k) \/ (NotBelowNotify(k) /\ ~Exceeded(k)))
              => (OneSkip("NO_FREE_SLOTS") /\ openPositions = ev.preOpen)

\* The first pairing had no price, the pass went on and replaced the
\* second one; the first is still open.
WitC24_PassGoesOnAfterUnpriced ==
    /\ FullAndNew /\ config.closeOnNewOpportunity
    /\ Len(ev.preOpen) = 2
    /\ Unpriced(1) /\ StillOpen(1)
    /\ ~Unpriced(2) /\ Qualifies(2)
    /\ ReplacedPairing(2)

\* the profit of pairing k is exactly the notify threshold
AtThreshold(k) ==
    HasPnl(k) /\ PnlOf(k).n * 100 * config.pctDen
                    = config.minSpreadToNotify * PnlOf(k).d

\* the opportunity's profit is exactly the profit of pairing k
EqualsOpportunity(k) ==
    HasPnl(k) /\ PnlOf(k).n * ev.opportunity.profitPercent.d
                    = ev.opportunity.profitPercent.n * PnlOf(k).d

\* C25: a pairing whose profit equals the notify threshold is a replacement
\* candidate (it is replaced when exceeded, and a POSITION_NOT_PROFITABLE
\* skip, if there is one, comes from a later pairing below the threshold),
\* and an opportunity whose profit equals a pairing's profit does not
\* replace that pairing.
InvC25_ThresholdInclusiveComparisonStrict ==
    (FullAndNew /\ config.closeOnNewOpportunity) =>
        \A k \in 1..Len(ev.preOpen) :
            /\ (AtThreshold(k) /\ PassedOverBefore(k)) =>
                  /\ OneSkip("POSITION_NOT_PROFITABLE") =>
                        \E j \in (k + 1)..Len(ev.preOpen) :
                            /\ BelowNotify(j)
                            /\ ev.calls[1].currentPositionProfit = PnlOf(j)
                  /\ Exceeded(k) => ReplacedPairing(k)
                  /\ ~Exceeded(k) => StillOpen(k)
            /\ EqualsOpportunity(k) => (~ClosedByStep(k) /\ StillOpen(k))

\* The first pairing stands exactly at the threshold and exactly at the
\* opportunity's profit: it is passed over, not replaced, and the pass ends
\* with NO_FREE_SLOTS after the second pairing.
WitC25_BothBoundariesAtOnce ==
    /\ FullAndNew /\ config.closeOnNewOpportunity
    /\ Len(ev.preOpen) = 2
    /\ AtThreshold(1) /\ EqualsOpportunity(1)
    /\ NotBelowNotify(2) /\ ~Exceeded(2)
    /\ OneSkip("NO_FREE_SLOTS")
    /\ openPositions = ev.preOpen

\* ---------------------------------------------------- direction properties
\* the cached price of a venue for an instrument (common format)
CachedOn(exchange, symbol) ==
    IF exchange = "binance" THEN binanceCache[symbol]
    ELSE mexcCache[CHOOSE s \in DOMAIN mexcCache : toCommonFormat(s) = symbol]

\* the last tick met a counterpart price
Compared == Ticked /\ ev.otherPrice # None

Undercut ==
    Compared /\ (ev.price.ask < ev.otherPrice.bid \/ ev.otherPrice.ask < ev.price.bid)

\* C26: an opportunity is produced only when one venue's ask is strictly
\* below the other venue's bid; its buy and sell venues differ, its buy
\* price is the buy venue's cached ask, its sell price the sell venue's
\* cached bid, and the sell price is the higher one.  A comparison in which
\* neither ask undercuts the other bid emits nothing and leaves the ledger
\* and the skip log alone.
InvC26_DirectionRule ==
    /\ Emitted =>
          /\ Undercut
          /\ ev.opportunity.buyExchange # ev.opportunity.sellExchange
          /\ {ev.opportunity.buyExchange, ev.opportunity.sellExchange} = Exchanges
          /\ ev.opportunity.buyPrice
                = CachedOn(ev.opportunity.buyExchange, ev.opportunity.symbol).ask
          /\ ev.opportunity.sellPrice
                = CachedOn(ev.opportunity.sellExchange, ev.opportunity.symbol).bid
          /\ ev.opportunity.sellPrice > ev.opportunity.buyPrice
    /\ (Compared /\ ~Undercut) => (ev.opportunity = None /\ Untouched)

\* One venue's ask equals the other's bid, no minimum spread is configured
\* and a slot is free: nothing is emitted.
WitC26_AskEqualsBidNoOpportunity ==
    /\ Compared
    /\ ev.otherPrice.ask = ev.price.bid
    /\ config.minSpreadPercent = 0 /\ config.enabled
    /\ Len(ev.preOpen) < config.maxOpenPositions
    /\ ~HasPairingFor(ev.preOpen, toCommonFormat(ev.price.symbol))
    /\ ev.opportunity = None /\ Untouched

\* ------------------------------------------------------ monitor properties
DisconnectRecorded(e) == hist'.disconnects[e] = hist.disconnects[e] + 1

ReconnectRecorded(e) == hist'.reconnects[e] = hist.reconnects[e] + 1

NoMonitorCall(e) ==
    /\ hist'.disconnects[e] = hist.disconnects[e]
    /\ hist'.reconnects[e] = hist.reconnects[e]

ArchiveOf(e) == SelectSeq(downtimes, LAMBDA d : d.exchange = e)

\* C27: a recordDisconnect for a venue that has an open downtime record
\* leaves that record as it was (disconnect time and reason).
CexC27_SecondDisconnectIgnored ==
    [][ \A e \in Exchanges :
          (currentDowntime[e] # None /\ DisconnectRecorded(e))
             => currentDowntime'[e] = currentDowntime[e] ]_vars

\* C28: the monitor holds at most one open downtime record per venue, kept
\* under the venue's own key, and a step without a monitor call for a venue
\* changes neither that venue's open record nor its archived entries.
PropC28_OneOpenRecordPerVenue ==
    /\ [](\A e \in Exchanges :
            /\ currentDowntime[e] # None => currentDowntime[e].exchange = e
            /\ OpenRecords(e) <= 1)
    /\ [][ \A e \in Exchanges :
             NoMonitorCall(e) =>
                /\ currentDowntime'[e] = currentDowntime[e]
                /\ ArchiveOf(e)' = ArchiveOf(e) ]_vars

\* Binance is down with an open record while MEXC has been down and has
\* reconnected.
WitC28_OneVenueDownOtherBack ==
    /\ currentDowntime["binance"] # None
    /\ currentDowntime["mexc"] = None
    /\ Len(ArchiveOf("mexc")) = 1
    /\ ArchiveOf("binance") = <<>>

\* C29: recordReconnect for a venue with an open record removes the record
\* and appends exactly one entry made of it, whose reconnect time is not
\* before its disconnect time and whose duration is their difference; the
\* entries archived before stay as they are.
ActC29_ReconnectArchivesOneEntry ==
    [][ /\ Len(downtimes') >= Len(downtimes)
        /\ SubSeq(downtimes', 1, Len(downtimes)) = downtimes
        /\ \A e \in Exchanges :
             (ReconnectRecorded(e) /\ currentDowntime[e] # None) =>
                /\ currentDowntime'[e] = None
                /\ Len(downtimes') = Len(downtimes) + 1
                /\ LET d == downtimes'[Len(downtimes')]
                   IN  /\ d.exchange = e
                       /\ d.disconnectTime = currentDowntime[e].disconnectTime
                       /\ d.reason = currentDowntime[e].reason
                       /\ d.reconnectTime >= d.disconnectTime
                       /\ d.durationMs = d.reconnectTime - d.disconnectTime ]_vars

\* Both venues have been down and back: two archived entries, the first
\* one archived before the second.
WitC29_TwoEntriesArchived ==
    /\ Len(downtimes) = 2
    /\ downtimes[1].exchange # downtimes[2].exchange
    /\ \A k \in 1..2 : downtimes[k].durationMs > 0
    /\ \A e \in Exchanges : currentDowntime[e] = None

\* C30: start() fails only when a startup health check failed.
CexC30_OnlyHealthFailureStopsStart ==
    boot.pc = "failed" => HealthFailed

\* ------------------------------------------------- configuration switches
SkipRecorded(reason) ==
    \E c \in 1..Len(ev.calls) : ev.calls[c].op = "skip" /\ ev.calls[c].reason = reason

\* C34: with replacement disabled and every slot taken, an opportunity for
\* an instrument without an open pairing records exactly one NO_FREE_SLOTS
\* skip; and with replacement disabled the engine never closes a pairing
\* and never records POSITION_NOT_PROFITABLE.
InvC34_NoReplacementWhenDisabled ==
    ~config.closeOnNewOpportunity =>
        /\ FullAndNew =>
              /\ OneSkip("NO_FREE_SLOTS")
              /\ NoLedgerCall
              /\ openPositions = ev.preOpen
        /\ Ticked =>
              /\ CountOp(ev.calls, "close") = 0
              /\ ~SkipRecorded("POSITION_NOT_PROFITABLE")
        /\ \A k \in 1..Len(skippedOpportunities) :
              skippedOpportunities[k].reason # "POSITION_NOT_PROFITABLE"

\* Replacement is disabled, two pairings are open, both priced, one of them
\* below the notify threshold: the opportunity is skipped for want of a slot.
WitC34_FullSlotsReplacementDisabled ==
    /\ ~config.closeOnNewOpportunity
    /\ FullAndNew /\ Len(ev.preOpen) = 2
    /\ \A k \in 1..Len(ev.preOpen) : HasPnl(k)
    /\ \E k \in 1..Len(ev.preOpen) : BelowNotify(k)
    /\ OneSkip("NO_FREE_SLOTS")

ActC37_ReconnectWithoutRecordIsNoOp ==
    [][ \A e \in Exchanges :
          (ReconnectRecorded(e) /\ currentDowntime[e] = None) =>
             /\ downtimes' = downtimes
             /\ currentDowntime' = currentDowntime ]_vars

\* Both venues' first connections have opened and nothing is archived.
WitC37_FirstConnectionsOpened ==
    /\ \A e \in Exchanges :
          /\ hist.reconnects[e] = 1
          /\ hist.disconnects[e] = 0
          /\ sockets[e] # <<>> /\ sockets[e][1].state = "open"
    /\ downtimes = <<>>
    /\ \A e \in Exchanges : currentDowntime[e] = None

\* -------------------------------------------------- monitored instruments
Fetched == fn # None /\ fn.op = "fetchTopPairs"

BothListed == Fetched /\ ~fn.binancePairs.thrown /\ ~fn.mexcPairs.thrown

Canonical(s) == SelectSeq(s, LAMBDA ch : ch # "_")

TopBinance == {fn.binancePairs.value[k].symbol : k \in 1..Len(fn.binancePairs.value)}

TopMexc == {fn.mexcPairs.value[k].symbol : k \in 1..Len(fn.mexcPairs.value)}

\* in both top lists and not excluded
Monitorable ==
    {c \in TopBinance : (\E m \in TopMexc : Canonical(m) = c)} \ fn.excludePairs

\* C38: discovery fails exactly when a venue's list could not be fetched or
\* no instrument is in both top lists and not excluded; otherwise the
\* monitored set is exactly those instruments, each once, and the MEXC
\* subscription list is the native MEXC symbol of each of them, in order.
InvC38_MonitoredSetIsCommonMinusExcluded ==
    /\ (Fetched /\ ~BothListed) => fn.result.thrown
    /\ BothListed =>
          /\ fn.result.thrown <=> Monitorable = {}
          /\ ~fn.result.thrown =>
                /\ Range(fn.result.value) = Monitorable
                /\ \A i, j \in 1..Len(fn.result.value) :
                      fn.result.value[i] = fn.result.value[j] => i = j
                /\ Len(fn.mexcSymbols) = Len(fn.result.value)
                /\ \A k \in 1..Len(fn.mexcSymbols) :
                      /\ fn.mexcSymbols[k] \in TopMexc
                      /\ Canonical(fn.mexcSymbols[k]) = fn.result.value[k]

\* Both venues listed the excluded instrument and each listed one the
\* other did not; what is monitored is the rest.
WitC38_ExcludedAndOneSidedLeftOut ==
    /\ BothListed /\ ~fn.result.thrown
    /\ \E x \in fn.excludePairs :
          x \in TopBinance /\ \E m \in TopMexc : Canonical(m) = x
    /\ \E c \in TopBinance : \A m \in TopMexc : Canonical(m) # c
    /\ \E m \in TopMexc : Canonical(m) \notin TopBinance
    /\ Monitorable # {}


\* ------------------------------------------------- one connection at a time
\* The client API with room for a third socket per venue: a connection, the
\* one made after disconnect(), and the one made after the first one's
\* close event; every call passes the engine's instruments and callback.
RaceArgs(e) == {args \in ConnectArgs(e) : args.callback = "onPriceUpdate"}

NextRace ==
    \/ \E e \in Exchanges : \E args \in RaceArgs(e) :
          ConnectCall(e, args, MaxAttempts)
    \/ \E e \in Exchanges : DisconnectCall(e)
    \/ SocketEvents(MaxAttempts)

SpecRace == InitClient /\ [][NextRace]_vars

Live(e) == {i \in 1..Len(sockets[e]) : sockets[e][i].state \in {"connecting", "open"}}

\* C33: a venue client has at most one socket connecting or open and at
\* most one keepalive timer running.
CexC33_OneLiveConnectionOneKeepalive ==
    \A e \in Exchanges :
        /\ Cardinality(Live(e)) <= 1
        /\ Cardinality(intervals[e]) <= 1

\* ------------------------------------------------- the engine over outages
\* The program started with both venues healthy and streaming: ticks arrive
\* on open sockets for the instruments they are subscribed to and run the
\* engine, while sockets fail, close and are replaced and stop() may be
\* called; topPairsCount is 2.  hist.ticks keeps the last quote a venue
\* sent for a symbol and lastCall the socket a tick arrived on.
StreamTick(e, i, s, q) ==
    /\ i \in 1..Len(sockets[e])
    /\ sockets[e][i].state = "open"
    /\ s \in sockets[e][i].subscribed
    /\ Bounded
    /\ LET price == TickerPrice(s, q.bid, q.bid, q.ask, e)
       IN  /\ binanceCache' = IF e = "binance"
                              THEN CacheSet(binanceCache, price.symbol, price)
                              ELSE binanceCache
           /\ mexcCache' = IF e = "mexc"
                           THEN CacheSet(mexcCache, price.symbol, price)
                           ELSE mexcCache
           /\ onPriceUpdate(price, binanceCache', mexcCache')
    /\ hist' = [hist EXCEPT !.ticks[e] =
                   [t \in DOMAIN @ \cup {s} |-> IF t = s THEN q ELSE @[t]]]
    /\ lastCall' = [op |-> "tick", exchange |-> e, socket |-> i]
    /\ UNCHANGED <<config, cost, fn, ws, sockets, pingInterval, intervals,
                   timers, currentDowntime, downtimes, boot, scriptVars>>

NextOutage ==
    \/ checkExchangesHealth(TRUE, TRUE)
    \/ StartDiscovery(Response(TRUE, TRUE, TRUE, Rows(FullListing("binance"))),
                      Response(TRUE, TRUE, TRUE, Rows(FullListing("mexc"))),
                      2)
    \/ StartMonitoring
    \/ \E e \in Exchanges : \E i \in 1..MaxSockets :
          \/ SocketOpen(e, i)
          \/ SocketClose(e, i, MaxSockets)
          \/ TimerFires(e, i, MaxSockets)
    \/ Stop
    \/ \E e \in Exchanges : \E i \in 1..MaxSockets :
          \E s \in SymbolsFor(e) : \E q \in Feed(e, s) : StreamTick(e, i, s, q)

SpecOutage == InitClient /\ [][NextOutage]_vars

TickArrived == lastCall # None /\ lastCall.op = "tick"

NoOpenSocket(e) ==
    /\ sockets[e] # <<>>
    /\ \A i \in 1..Len(sockets[e]) : sockets[e][i].state # "open"

\* the venue's form of a canonical symbol, and the canonical symbols seen
NativeOn(e, c) ==
    IF e = "binance" THEN c
    ELSE SubSeq(c, 1, Len(c) - 4) \o <<"_">> \o SubSeq(c, Len(c) - 3, Len(c))

Seen == DOMAIN hist.ticks["binance"]
            \cup {Canonical(m) : m \in DOMAIN hist.ticks["mexc"]}

LastQuote(e, c) ==
    IF NativeOn(e, c) \in DOMAIN hist.ticks[e]
    THEN hist.ticks[e][NativeOn(e, c)] ELSE None

\* what the replacement pass is to get for a symbol from the last quotes
PricesFromLastQuotes(c) ==
    LET b == LastQuote("binance", c)
        m == LastQuote("mexc", c)
    IN  IF b = None \/ m = None THEN None
        ELSE IF b.ask < m.bid THEN [buyPrice |-> b.ask, sellPrice |-> m.bid]
        ELSE [buyPrice |-> m.ask, sellPrice |-> b.bid]

\* the caches hold, for every symbol, the last quote its venue ever sent
CacheIsLastQuotes ==
    /\ \A e \in Exchanges :
          /\ DOMAIN Cache(e) = DOMAIN hist.ticks[e]
          /\ \A s \in DOMAIN Cache(e) :
                /\ Cache(e)[s].bid = hist.ticks[e][s].bid
                /\ Cache(e)[s].ask = hist.ticks[e][s].ask
                /\ Cache(e)[s].symbol = s
                /\ Cache(e)[s].exchange = e
    /\ \A c \in Seen :
          getCurrentPrices(binanceCache, mexcCache, c) = PricesFromLastQuotes(c)
    /\ (TickArrived /\ Ticked) =>
          LET o == IF lastCall.exchange = "binance" THEN "mexc" ELSE "binance"
              q == LastQuote(o, Canonical(ev.price.symbol))
          IN  /\ ev.otherPrice = None <=> q = None
              /\ q # None => ev.otherPrice.bid = q.bid /\ ev.otherPrice.ask = q.ask

\* a step changes a cache only by a tick arriving on an open socket of that
\* venue, and then only the entry of the tick's symbol; no entry goes away
CacheChangedOnlyByTick ==
    \A e \in Exchanges :
        /\ DOMAIN Cache(e) \subseteq DOMAIN Cache(e)'
        /\ Cache(e)' # Cache(e) =>
              /\ lastCall' # None /\ lastCall'.op = "tick" /\ lastCall'.exchange = e
              /\ sockets' = sockets /\ ws' = ws /\ timers' = timers
              /\ boot' = boot /\ downtimes' = downtimes
              /\ currentDowntime' = currentDowntime
              /\ \A s \in DOMAIN Cache(e) :
                    s # ev'.price.symbol => Cache(e)'[s] = Cache(e)[s]

\* C36: no step but a tick changes a price cache and no entry is ever
\* removed: after disconnect, a close and a reconnect the cache holds for
\* every symbol the last quote the venue sent, and the engine's comparison
\* and the replacement price getter read exactly these values.
PropC36_CacheSurvivesOutage ==
    /\ []CacheIsLastQuotes
    /\ [][CacheChangedOnlyByTick]_vars

\* Binance has closed and nothing of it is open; a MEXC tick has just been
\* compared with the Binance quote cached before the outage and an
\* opportunity was found.
WitC36_StaleQuoteCompared ==
    /\ TickArrived /\ lastCall.exchange = "mexc"
    /\ NoOpenSocket("binance")
    /\ hist.disconnects["binance"] >= 1
    /\ Ticked /\ ev.otherPrice # None /\ ev.opportunity # None
    /\ binanceCache # EmptyMap

\* ===================================================== the auxiliary script
\* src/unnamed/part_000: a single-process paper trader.  Prices are whole
\* numbers (0: no price received yet), spreads are in hundredths of a
\* percent, money in 1/10000 of a dollar, time in milliseconds.
MARGIN == 20

LEVERAGE == 5

\* 0.90 % and 0.1 %, in hundredths of a percent
ENTRY_THRESHOLD == 90

EXIT_THRESHOLD == 10

IGNORE_FLASH_MS == 2000

COOLDOWN_MS == 300000

\* 0.0016 and 0.002, in 1/10000
FEE_RATE == 16

SLIPPAGE_RATE == 20

MAX_FLASH_STRIKES == 3

\* the period of setInterval(logicLoop, 200)
LOOP_MS == 200

BLACKLIST == { Sym(<<"A", "L", "I", "C", "E">>), Sym(USDC) }

POSITION_SIZE == MARGIN * LEVERAGE

\* the most often Date.now() advances in a run
MaxAdvances == 5

\* state.commonPairs after init(): an instrument that may be traded and one
\* of the configured blacklist
ScriptPairs == << Sym(<<"A">>), Sym(USDC) >>

ScriptSymbols == {ScriptPairs[k] : k \in 1..Len(ScriptPairs)}

\* the prices the streams send: Binance stays level, MEXC is level or two
\* percent above
ScriptPrices(exchange, sym) ==
    IF sym = Sym(<<"A">>)
    THEN IF exchange = "binance" THEN {1000} ELSE {1000, 1020}
    ELSE IF exchange = "binance" THEN {1000} ELSE {1020}

\* Date.now() advances by one loop period, up to the flash limit, or up to
\* the end of a cooldown
ClockSteps == {LOOP_MS, IGNORE_FLASH_MS - LOOP_MS, COOLDOWN_MS - IGNORE_FLASH_MS}

\* best = Math.max(sA, sB): the larger of the two relative differences
SpreadOfPrices(binPrice, mexcPrice) ==
    IF mexcPrice > binPrice
    THEN ((mexcPrice - binPrice) * 10000) \div binPrice
    ELSE ((binPrice - mexcPrice) * 10000) \div mexcPrice

DirOfPrices(binPrice, mexcPrice) ==
    IF mexcPrice > binPrice THEN "L_BIN/S_MEX" ELSE "S_BIN/L_MEX"

\* the state object once init() has run
ScriptStarted ==
    [pairs |-> [s \in ScriptSymbols |->
                  [binFund |-> 0, mexcFund |-> 0, binPrice |-> 0, mexcPrice |-> 0,
                   calc |-> None]],
     activeTrades |-> EmptyMap,
     cooldowns |-> EmptyMap,
     commonPairs |-> ScriptPairs,
     blacklist |-> BLACKLIST,
     flashStrikes |-> EmptyMap,
     stats |-> [startTime |-> 0, realDeals |-> 0, netProfit |-> 0, feesPaid |-> 0,
               slippageLost |-> 0]]

\* the record: how often the clock advanced, and the time (if any) a
\* symbol's trade was last closed after IGNORE_FLASH_MS or more
AuditNew ==
    [advances |-> 0, realClose |-> [s \in ScriptSymbols |-> {}]]

MapSet(map, key, value) ==
    [k \in DOMAIN map \cup {key} |-> IF k = key THEN value ELSE map[k]]

MapDelete(map, key) == [k \in DOMAIN map \ {key} |-> map[k]]

\* variant: the strike limit never blacklists
closeTradeNeverBlacklists(st, sym, trade, now) ==
    LET dur == now - trade.entryTime
    IN  IF dur < IGNORE_FLASH_MS
        THEN LET strikes == (IF sym \in DOMAIN st.flashStrikes
                             THEN st.flashStrikes[sym] ELSE 0) + 1
             IN  [st EXCEPT !.flashStrikes = MapSet(@, sym, strikes),
                            !.activeTrades = MapDelete(@, sym)]
        ELSE LET tradeCost == POSITION_SIZE * (FEE_RATE + SLIPPAGE_RATE)
                 net == trade.currentPnl - tradeCost
             IN  [st EXCEPT !.stats.realDeals = @ + 1,
                            !.stats.netProfit = @ + net,
                            !.stats.feesPaid = @ + tradeCost,
                            !.cooldowns = MapSet(@, sym, now + COOLDOWN_MS),
                            !.activeTrades = MapDelete(@, sym)]

\* closeTrade(sym, trade, data) at Date.now() = now: a close within
\* IGNORE_FLASH_MS of the entry is a strike, and the symbol is blacklisted
\* at MAX_FLASH_STRIKES; any other close is booked and starts the
\* cooldown.  Either way the active trade is deleted.
closeTrade(st, sym, trade, now) ==
    LET dur == now - trade.entryTime
    IN  IF dur < IGNORE_FLASH_MS
        THEN LET strikes == (IF sym \in DOMAIN st.flashStrikes
                             THEN st.flashStrikes[sym] ELSE 0) + 1
             IN  [st EXCEPT !.flashStrikes = MapSet(@, sym, strikes),
                            !.blacklist = IF strikes >= MAX_FLASH_STRIKES
                                          THEN @ \cup {sym} ELSE @,
                            !.activeTrades = MapDelete(@, sym)]
        ELSE LET tradeCost == POSITION_SIZE * (FEE_RATE + SLIPPAGE_RATE)
                 net == trade.currentPnl - tradeCost
             IN  [st EXCEPT !.stats.realDeals = @ + 1,
                            !.stats.netProfit = @ + net,
                            !.stats.feesPaid = @ + tradeCost,
                            !.cooldowns = MapSet(@, sym, now + COOLDOWN_MS),
                            !.activeTrades = MapDelete(@, sym)]

\* the trade logicLoop enters
NewTrade(d, best, now) ==
    [entryTime |-> now,
     entryPrices |-> [bin |-> d.binPrice, mex |-> d.mexcPrice],
     entrySpread |-> best, minPnl |-> 0, currentPnl |-> 0, currentSpread |-> best]

\* the second half of the callback of logicLoop: the trade of the symbol,
\* if there is one, is re-valued and closed at or below the exit threshold
ManageTrade(st, sym, best, now) ==
    IF sym \notin DOMAIN st.activeTrades THEN st
    ELSE LET t == st.activeTrades[sym]
             currentPnl == POSITION_SIZE * (t.entrySpread - best)
             valued == [t EXCEPT !.currentPnl = currentPnl,
                                 !.currentSpread = best,
                                 !.minPnl = IF currentPnl < @ THEN currentPnl ELSE @]
             kept == [st EXCEPT !.activeTrades[sym] = valued]
         IN  IF best <= EXIT_THRESHOLD THEN closeTrade(kept, sym, valued, now)
             ELSE kept

\* variant: the cooldown is not consulted
VisitPairIgnoresCooldown(st, sym, now) ==
    IF sym \in st.blacklist THEN st
    ELSE LET d == st.pairs[sym]
         IN  IF d.binPrice = 0 \/ d.mexcPrice = 0 THEN st
             ELSE LET best == SpreadOfPrices(d.binPrice, d.mexcPrice)
                      calc == [spread |-> best,
                               dir |-> DirOfPrices(d.binPrice, d.mexcPrice),
                               pnl |-> POSITION_SIZE * best]
                      seen == [st EXCEPT !.pairs[sym].calc = calc]
                      entered ==
                          IF sym \notin DOMAIN st.activeTrades /\ best >= ENTRY_THRESHOLD
                          THEN [seen EXCEPT !.activeTrades =
                                    MapSet(@, sym, NewTrade(d, best, now))]
                          ELSE seen
                  IN  ManageTrade(entered, sym, best, now)

\* the callback of logicLoop for one pair at Date.now() = now
VisitPair(st, sym, now) ==
    IF sym \in st.blacklist THEN st
    ELSE IF sym \in DOMAIN st.cooldowns /\ st.cooldowns[sym] > now THEN st
    ELSE LET d == st.pairs[sym]
         IN  IF d.binPrice = 0 \/ d.mexcPrice = 0 THEN st
             ELSE LET best == SpreadOfPrices(d.binPrice, d.mexcPrice)
                      calc == [spread |-> best,
                               dir |-> DirOfPrices(d.binPrice, d.mexcPrice),
                               pnl |-> POSITION_SIZE * best]
                      seen == [st EXCEPT !.pairs[sym].calc = calc]
                      entered ==
                          IF sym \notin DOMAIN st.activeTrades /\ best >= ENTRY_THRESHOLD
                          THEN [seen EXCEPT !.activeTrades =
                                    MapSet(@, sym, NewTrade(d, best, now))]
                          ELSE seen
                  IN  ManageTrade(entered, sym, best, now)

\* state.commonPairs.forEach from pair k on
RECURSIVE VisitFrom(_, _, _)
VisitFrom(st, k, now) ==
    IF k > Len(st.commonPairs) THEN st
    ELSE VisitFrom(VisitPair(st, st.commonPairs[k], now), k + 1, now)

\* the closes one run of the loop made, for the record
Audited(au, before, after, now) ==
    [au EXCEPT
        !.realClose = [s \in ScriptSymbols |->
                        IF /\ s \in DOMAIN before.activeTrades
                           /\ s \notin DOMAIN after.activeTrades
                           /\ now - before.activeTrades[s].entryTime >= IGNORE_FLASH_MS
                        THEN {now} ELSE @[s]]]

engineVars == <<config, binanceCache, mexcCache, openPositions,
                skippedOpportunities, stats, ev, cost, connVars, fn>>

\* a run of logicLoop
logicLoop ==
    /\ scriptState' = VisitFrom(scriptState, 1, clock)
    /\ audit' = Audited(audit, scriptState, scriptState', clock)
    /\ UNCHANGED <<clock, engineVars>>

\* a ticker of the Binance stream for a monitored symbol
BinancePrice(sym, price) ==
    /\ sym \in DOMAIN scriptState.pairs
    /\ scriptState' = [scriptState EXCEPT !.pairs[sym].binPrice = price]
    /\ UNCHANGED <<clock, audit, engineVars>>

\* a push.ticker message of the MEXC stream for a monitored symbol
MexcPrice(sym, price) ==
    /\ sym \in DOMAIN scriptState.pairs
    /\ scriptState' = [scriptState EXCEPT !.pairs[sym].mexcPrice = price]
    /\ UNCHANGED <<clock, audit, engineVars>>

\* time passes
ClockAdvances(d) ==
    /\ audit.advances < MaxAdvances
    /\ clock' = clock + d
    /\ audit' = [audit EXCEPT !.advances = @ + 1]
    /\ UNCHANGED <<scriptState, engineVars>>

InitScript ==
    /\ config = Cfg(10, 1, 1, 0, 1, TRUE, TRUE, 2)
    /\ binanceCache = EmptyMap
    /\ mexcCache = EmptyMap
    /\ openPositions = <<>>
    /\ skippedOpportunities = <<>>
    /\ stats = [totalComparisons |-> 0, opportunitiesFound |-> 0]
    /\ ev = Event("init", None, None, None, <<>>, <<>>)
    /\ cost = None
    /\ fn = None
    /\ InitConnVars
    /\ scriptState = ScriptStarted
    /\ clock = 0
    /\ audit = AuditNew

NextScript ==
    \/ logicLoop
    \/ \E sym \in ScriptSymbols : \E price \in ScriptPrices("binance", sym) :
          BinancePrice(sym, price)
    \/ \E sym \in ScriptSymbols : \E price \in ScriptPrices("mexc", sym) :
          MexcPrice(sym, price)
    \/ \E d \in ClockSteps : ClockAdvances(d)

SpecScript == InitScript /\ [][NextScript]_vars

\* ---------------------------------------------------- script properties
Strikes(st, s) == IF s \in DOMAIN st.flashStrikes THEN st.flashStrikes[s] ELSE 0

Active(st, s) == s \in DOMAIN st.activeTrades

EnteredInStep(s) == ~Active(scriptState, s) /\ Active(scriptState', s)

ClosedInStep(s) == Active(scriptState, s) /\ ~Active(scriptState', s)

\* the time the trade of s had been open when the step closed it
DurationInStep(s) == clock - scriptState.activeTrades[s].entryTime

BlacklistState ==
    /\ BLACKLIST \subseteq scriptState.blacklist
    /\ \A s \in ScriptSymbols :
          /\ Strikes(scriptState, s) >= MAX_FLASH_STRIKES => s \in scriptState.blacklist
          /\ s \in scriptState.blacklist => ~Active(scriptState, s)

BlacklistStep ==
    /\ scriptState.blacklist \subseteq scriptState'.blacklist
    /\ \A s \in scriptState'.blacklist \ scriptState.blacklist :
          Strikes(scriptState', s) >= MAX_FLASH_STRIKES
    /\ \A s \in ScriptSymbols :
          /\ Strikes(scriptState', s) >= Strikes(scriptState, s)
          /\ EnteredInStep(s) => s \notin scriptState.blacklist
          /\ (ClosedInStep(s) /\ DurationInStep(s) < IGNORE_FLASH_MS)
                => Strikes(scriptState', s) = Strikes(scriptState, s) + 1

\* C31: a symbol whose strike count has reached MAX_FLASH_STRIKES is on the
\* blacklist; the blacklist only grows, by symbols that reached the limit;
\* a strike count never goes down; no trade is entered for a blacklisted
\* symbol and none is active for one.
PropC31_BlacklistIsPermanent ==
    /\ []BlacklistState
    /\ [][BlacklistStep]_vars

\* The third flash close put the instrument on the blacklist; its prices
\* are two percent apart again, the spread last computed for it is still
\* that of the close, and no trade is active.
WitC31_BlacklistedAfterThreeStrikes ==
    LET s == Sym(<<"A">>)
        d == scriptState.pairs[s]
    IN  /\ scriptState # None
        /\ Strikes(scriptState, s) = MAX_FLASH_STRIKES
        /\ s \in scriptState.blacklist /\ s \notin BLACKLIST
        /\ d.binPrice = 1000 /\ d.mexcPrice = 1020
        /\ d.calc # None /\ d.calc.spread <= EXIT_THRESHOLD
        /\ scriptState.activeTrades = EmptyMap
        /\ scriptState.stats.realDeals = 0

CooldownStep ==
    \A s \in ScriptSymbols :
       /\ EnteredInStep(s) =>
             \A t \in audit.realClose[s] : clock' >= t + COOLDOWN_MS
       /\ (ClosedInStep(s) /\ DurationInStep(s) < IGNORE_FLASH_MS) =>
             /\ scriptState'.cooldowns = scriptState.cooldowns
             /\ audit'.realClose[s] = audit.realClose[s]
       /\ (ClosedInStep(s) /\ DurationInStep(s) >= IGNORE_FLASH_MS) =>
             /\ audit'.realClose[s] = {clock}
             /\ s \in DOMAIN scriptState'.cooldowns
             /\ scriptState'.cooldowns[s] = clock + COOLDOWN_MS
       /\ (Active(scriptState, s) /\ Active(scriptState', s)) =>
             /\ scriptState'.activeTrades[s].entryTime
                   = scriptState.activeTrades[s].entryTime
             /\ scriptState'.activeTrades[s].entrySpread
                   = scriptState.activeTrades[s].entrySpread
             /\ scriptState'.activeTrades[s].entryPrices
                   = scriptState.activeTrades[s].entryPrices

\* the closes of the step that are no flash closes
RealClosesInStep ==
    {s \in ScriptSymbols : ClosedInStep(s) /\ DurationInStep(s) >= IGNORE_FLASH_MS}

BookingStep ==
    /\ scriptState'.stats.realDeals
          = scriptState.stats.realDeals + Cardinality(RealClosesInStep)
    /\ RealClosesInStep = {} =>
          /\ scriptState'.stats.netProfit = scriptState.stats.netProfit
          /\ scriptState'.stats.feesPaid = scriptState.stats.feesPaid

\* C32: no trade is entered for a symbol earlier than COOLDOWN_MS after its
\* last close that was no flash close; a flash close changes no cooldown,
\* and realDeals counts and netProfit changes with the other closes only;
\* a trade that stays active is the one that was entered.
ActC32_CooldownAfterRealClose ==
    [][scriptState # None => CooldownStep /\ BookingStep]_vars

\* A flash close, an entry right after it, a booked close, and the next
\* entry exactly COOLDOWN_MS after that close.
WitC32_ReenteredWhenCooldownEnded ==
    LET s == Sym(<<"A">>)
    IN  /\ scriptState # None
        /\ Strikes(scriptState, s) = 1
        /\ scriptState.stats.realDeals = 1
        /\ Active(scriptState, s)
        /\ \E t \in audit.realClose[s] :
              scriptState.activeTrades[s].entryTime = t + COOLDOWN_MS
====
